---------------------------- MODULE Spec2Model ----------------------------
(***************************************************************************)
(* NAUTILUS Navigator (desdeo/mcdm/nautilus_navigator.py): the navigation  *)
(* step, the multi-step driver and the branching response history.         *)
(*                                                                         *)
(* Objective values are exact rationals <<numerator, denominator>>.        *)
(* Python indices are kept 0-based, negative indices included.             *)
(* An optional value (None or a dict) is the set {} or {dict}.             *)
(***************************************************************************)
EXTENDS Integers, Sequences, FiniteSets, TLC

\* ------------------------------------------------------------------ bounds
MaxLen == 5        \* longest history drawn for the history functions
MaxStepNo == 3     \* largest step number of a drawn history entry
MaxHist == 4       \* longest history the caller builds by appending
MaxN == 3          \* largest steps_remaining handed to navigator_all_steps
MaxRows == 2       \* most rows of a data frame handed to the evaluator
MaxProto == 5      \* longest history built with a solver that succeeds
MaxResults == 3    \* most results a NIMBUS solve returns
MaxPrefs == 1      \* most preference records in the database

\* -------------------------------------------------------- exact rationals
Abs(n) == IF n < 0 THEN -n ELSE n

RECURSIVE Gcd(_, _)
Gcd(a, b) == IF b = 0 THEN a ELSE Gcd(b, a % b)

Norm(n, d) ==
    IF n = 0 THEN <<0, 1>>
    ELSE LET g == Gcd(Abs(n), Abs(d))
             s == IF d < 0 THEN -1 ELSE 1
         IN <<(s * n) \div g, (s * d) \div g>>

R(n) == <<n, 1>>
RAdd(a, b) == Norm(a[1] * b[2] + b[1] * a[2], a[2] * b[2])
RSub(a, b) == Norm(a[1] * b[2] - b[1] * a[2], a[2] * b[2])
RMul(a, b) == Norm(a[1] * b[1], a[2] * b[2])
RDiv(a, b) == Norm(a[1] * b[2], a[2] * b[1])
RNeg(a) == <<-a[1], a[2]>>
RLeq(a, b) == a[1] * b[2] <= b[1] * a[2]
RLt(a, b) == a[1] * b[2] < b[1] * a[2]

\* --------------------------------------------------------------- problem
None == {}
Some(v) == {v}
The(o) == CHOOSE v \in o : TRUE

Pt(a, b) == [f1 |-> R(a), f2 |-> R(b)]

\* A two-objective problem: f1 is minimized, f2 is maximized.  feasible is
\* the set of attainable objective vectors (original orientation): three
\* Pareto optimal ones and a dominated one that coincides with the nadir
\* point.
TestProblem ==
    [objectives |-> << [symbol |-> "f1", maximize |-> FALSE],
                       [symbol |-> "f2", maximize |-> TRUE] >>,
     ideal      |-> Pt(0, 4),
     nadir      |-> Pt(2, 0),
     feasible   |-> {Pt(0, 0), Pt(1, 3), Pt(2, 4), Pt(2, 0)}]

Symbols(problem) ==
    {problem.objectives[i].symbol : i \in DOMAIN problem.objectives}

get_nadir_dict(problem) == problem.nadir

\* dict -> array in objective order, and back
objective_dict_to_numpy_array(problem, d) ==
    [i \in DOMAIN problem.objectives |-> d[problem.objectives[i].symbol]]

SymbolIndex(problem, s) ==
    CHOOSE i \in DOMAIN problem.objectives : problem.objectives[i].symbol = s

numpy_array_to_objective_dict(problem, arr) ==
    [s \in Symbols(problem) |-> arr[SymbolIndex(problem, s)]]

\* value of objective i of point p in minimization orientation (<symbol>_min)
MinValue(problem, i, p) ==
    LET o == problem.objectives[i]
    IN IF o.maximize THEN RNeg(p[o.symbol]) ELSE p[o.symbol]

\* A component of the ideal/nadir point that is not defined (Python None).
Undefined == <<0, 0>>

\* the test problem with an incompletely defined nadir or ideal point
NoNadirProblem ==
    [TestProblem EXCEPT !.nadir = [f1 |-> R(2), f2 |-> Undefined]]

NoIdealProblem ==
    [TestProblem EXCEPT !.ideal = [f1 |-> Undefined, f2 |-> R(4)]]

Problems == {TestProblem, NoNadirProblem, NoIdealProblem}

\* ------------------------------------------------------ solver capability
\* What a sub-solve can be told to do: find the optimum, or fail with a
\* diagnostic message.
FailureMessages == {"maxiter"}
SolverChoices == {"optimal"} \cup FailureMessages

\* objective values a solver reports together with a failure
FailPoints == {Pt(3, 1)}

\* create_epsilon_constraints: minimize objective_symbol (minimization
\* orientation) with every other objective o bounded by o_min <= epsilons[o]
create_epsilon_constraints(problem, objective_symbol, epsilons) ==
    [target |-> SymbolIndex(problem, objective_symbol),
     consts |-> {i \in DOMAIN problem.objectives :
                    problem.objectives[i].symbol # objective_symbol},
     eps    |-> epsilons]

EpsFeasible(problem, eps_problem) ==
    {p \in problem.feasible :
        \A i \in eps_problem.consts :
            RLeq(MinValue(problem, i, p),
                 eps_problem.eps[problem.objectives[i].symbol])}

\* solver(target) on an epsilon-constraint problem
EpsSolver(problem, eps_problem, choice) ==
    LET F == EpsFeasible(problem, eps_problem)
    IN IF choice = "optimal" /\ F # {}
       THEN [success |-> TRUE, message |-> "ok",
             optimal_objectives |->
                CHOOSE p \in F : \A q \in F :
                    RLeq(MinValue(problem, eps_problem.target, p),
                         MinValue(problem, eps_problem.target, q))]
       ELSE [success |-> FALSE,
             message |-> IF choice = "optimal" THEN "infeasible" ELSE choice,
             optimal_objectives |-> CHOOSE p \in FailPoints : TRUE]

\* the constraints solve_reachable_solution adds: for every objective,
\* <symbol>_min - previous_nav_point[symbol] * (-1 if maximize else 1) <= 0
ReachableConstraintsHold(problem, previous_nav_point, p) ==
    \A i \in DOMAIN problem.objectives :
        RLeq(MinValue(problem, i, p), MinValue(problem, i, previous_nav_point))

\* every result the solver can return for the constrained scalarized problem
AsfSolverResults(problem, reference_point, previous_nav_point) ==
    {[success |-> TRUE, message |-> "ok", optimal_objectives |-> p] :
        p \in {q \in problem.feasible :
                  ReachableConstraintsHold(problem, previous_nav_point, q)}}
    \cup
    {[success |-> FALSE, message |-> m, optimal_objectives |-> p] :
        m \in FailureMessages, p \in FailPoints}

\* ----------------------------------------------------------- navigator
EmptyDict == [s \in {} |-> R(0)]
DictSet(d, k, v) == [s \in DOMAIN d \cup {k} |-> IF s = k THEN v ELSE d[s]]

\* changed: only a negative number of steps remaining is refused
calculate_navigation_point_negative_only(problem, previous_navigation_point, reachable_objective_vector, number_of_steps_remaining) ==
    IF number_of_steps_remaining < 0
    THEN [raised |-> TRUE, message |-> <<"steps_remaining">>, value |-> None]
    ELSE LET z_prev == objective_dict_to_numpy_array(problem,
                                                    previous_navigation_point)
             f  == objective_dict_to_numpy_array(problem,
                                                 reachable_objective_vector)
             rs == number_of_steps_remaining
             z  == [i \in DOMAIN z_prev |->
                       RAdd(RMul(RDiv(R(rs - 1), R(rs)), z_prev[i]),
                            RDiv(f[i], R(rs)))]
         IN [raised |-> FALSE, message |-> << >>,
             value |-> Some(numpy_array_to_objective_dict(problem, z))]

\* changed: the two weights are exchanged
calculate_navigation_point_weights_swapped(problem, previous_navigation_point, reachable_objective_vector, number_of_steps_remaining) ==
    IF number_of_steps_remaining <= 0
    THEN [raised |-> TRUE, message |-> <<"steps_remaining">>, value |-> None]
    ELSE LET z_prev == objective_dict_to_numpy_array(problem,
                                                    previous_navigation_point)
             f  == objective_dict_to_numpy_array(problem,
                                                 reachable_objective_vector)
             rs == number_of_steps_remaining
             z  == [i \in DOMAIN z_prev |->
                       RAdd(RMul(RDiv(R(rs - 1), R(rs)), f[i]),
                            RDiv(z_prev[i], R(rs)))]
         IN [raised |-> FALSE, message |-> << >>,
             value |-> Some(numpy_array_to_objective_dict(problem, z))]

\* changed: every step goes half of the way to the reachable vector
calculate_navigation_point_halfway(problem, previous_navigation_point, reachable_objective_vector, number_of_steps_remaining) ==
    IF number_of_steps_remaining <= 0
    THEN [raised |-> TRUE, message |-> <<"steps_remaining">>, value |-> None]
    ELSE LET z_prev == objective_dict_to_numpy_array(problem,
                                                    previous_navigation_point)
             f  == objective_dict_to_numpy_array(problem,
                                                 reachable_objective_vector)
             rs == number_of_steps_remaining
             z  == [i \in DOMAIN z_prev |->
                       RDiv(RAdd(z_prev[i], f[i]), R(2))]
         IN [raised |-> FALSE, message |-> << >>,
             value |-> Some(numpy_array_to_objective_dict(problem, z))]

\* changed: the step starts at the reachable vector and leaves the previous point behind
calculate_navigation_point_extrapolated(problem, previous_navigation_point, reachable_objective_vector, number_of_steps_remaining) ==
    IF number_of_steps_remaining <= 0
    THEN [raised |-> TRUE, message |-> <<"steps_remaining">>, value |-> None]
    ELSE LET z_prev == objective_dict_to_numpy_array(problem,
                                                    previous_navigation_point)
             f  == objective_dict_to_numpy_array(problem,
                                                 reachable_objective_vector)
             rs == number_of_steps_remaining
             z  == [i \in DOMAIN z_prev |->
                       RSub(RMul(RDiv(R(rs + 1), R(rs)), f[i]),
                            RDiv(z_prev[i], R(rs)))]
         IN [raised |-> FALSE, message |-> << >>,
             value |-> Some(numpy_array_to_objective_dict(problem, z))]

\* lines 72-83
calculate_navigation_point(problem, previous_navigation_point, reachable_objective_vector, number_of_steps_remaining) ==
    IF number_of_steps_remaining <= 0
    THEN [raised |-> TRUE, message |-> <<"steps_remaining">>, value |-> None]
    ELSE LET z_prev == objective_dict_to_numpy_array(problem,
                                                    previous_navigation_point)
             f  == objective_dict_to_numpy_array(problem,
                                                 reachable_objective_vector)
             rs == number_of_steps_remaining
             z  == [i \in DOMAIN z_prev |->
                       RAdd(RMul(RDiv(R(rs - 1), R(rs)), z_prev[i]),
                            RDiv(f[i], R(rs)))]
         IN [raised |-> FALSE, message |-> << >>,
             value |-> Some(numpy_array_to_objective_dict(problem, z))]

\* changed: the sign is not flipped for a maximized objective
const_bounds_noflip(problem, navigation_point) ==
    [s \in Symbols(problem) |-> navigation_point[s]]

\* lines 111-116
const_bounds(problem, navigation_point) ==
    [s \in Symbols(problem) |->
        IF problem.objectives[SymbolIndex(problem, s)].maximize
        THEN RMul(R(-1), navigation_point[s])
        ELSE navigation_point[s]]

\* changed: the loop is left and the bounds found so far are returned
BoundsFailure_partial(objective, res, lower_bounds, upper_bounds, solves) ==
    [raised |-> FALSE,
     message |-> << >>,
     bounds |-> Some([lower_bounds |-> lower_bounds,
                      upper_bounds |-> upper_bounds]),
     solves |-> solves]

\* lines 142-148: the sub-solve of objective failed
BoundsFailure(objective, res, lower_bounds, upper_bounds, solves) ==
    [raised |-> TRUE,
     message |-> <<"eps", objective.symbol, res.message>>,
     bounds |-> None,
     solves |-> solves]

\* changed: the two values are stored the same way for every objective
OrderBounds_unswapped(objective, lower_bound, upper_bound) ==
    [lower |-> lower_bound, upper |-> upper_bound]

\* lines 164-165: which of the two values is stored as which bound
OrderBounds(objective, lower_bound, upper_bound) ==
    [lower |-> IF ~objective.maximize THEN lower_bound ELSE upper_bound,
     upper |-> IF ~objective.maximize THEN upper_bound ELSE lower_bound]

\* changed: an objective solved earlier is constrained by the value found
\* for it instead of the navigation point's
SubSolve_chained(problem, objective, navigation_point, lower_bounds, upper_bounds, choice) ==
    LET found == [s \in Symbols(problem) |->
                    IF s \in DOMAIN lower_bounds
                    THEN (IF problem.objectives[SymbolIndex(problem, s)]
                                .maximize
                          THEN upper_bounds[s] ELSE lower_bounds[s])
                    ELSE navigation_point[s]]
    IN EpsSolver(problem,
                 create_epsilon_constraints(problem, objective.symbol,
                                            const_bounds(problem, found)),
                 choice[objective.symbol])

\* lines 125-140: the sub-solve of one objective; lower_bounds and
\* upper_bounds are the dicts filled so far, which are in scope
SubSolve(problem, objective, navigation_point, lower_bounds, upper_bounds, choice) ==
    EpsSolver(problem,
              create_epsilon_constraints(problem, objective.symbol,
                  const_bounds(problem, navigation_point)),
              choice[objective.symbol])

\* the loop of solve_reachable_bounds from objective number i on; solves
\* lists the objectives whose sub-problem was handed to the solver
RECURSIVE BoundsLoop(_, _, _, _, _, _, _)
BoundsLoop(problem, navigation_point, choice, i, lower_bounds, upper_bounds, solves) ==
    IF i > Len(problem.objectives)
    THEN [raised |-> FALSE, message |-> << >>,
          bounds |-> Some([lower_bounds |-> lower_bounds,
                           upper_bounds |-> upper_bounds]),
          solves |-> solves]
    ELSE LET objective == problem.objectives[i]
             res == SubSolve(problem, objective, navigation_point,
                             lower_bounds, upper_bounds, choice)
             lower_bound == res.optimal_objectives[objective.symbol]
             upper_bound == navigation_point[objective.symbol]
         IN IF ~res.success
            THEN BoundsFailure(objective, res, lower_bounds, upper_bounds,
                               Append(solves, objective.symbol))
            ELSE BoundsLoop(problem, navigation_point, choice, i + 1,
                    DictSet(lower_bounds, objective.symbol,
                        OrderBounds(objective, lower_bound,
                                    upper_bound).lower),
                    DictSet(upper_bounds, objective.symbol,
                        OrderBounds(objective, lower_bound,
                                    upper_bound).upper),
                    Append(solves, objective.symbol))

\* the same loop with its passes taken in the order given: order lists the
\* objective numbers, k is the position reached
RECURSIVE BoundsLoopInOrder(_, _, _, _, _, _, _, _)
BoundsLoopInOrder(problem, navigation_point, choice, order, k, lower_bounds, upper_bounds, solves) ==
    IF k > Len(order)
    THEN [raised |-> FALSE, message |-> << >>,
          bounds |-> Some([lower_bounds |-> lower_bounds,
                           upper_bounds |-> upper_bounds]),
          solves |-> solves]
    ELSE LET objective == problem.objectives[order[k]]
             res == SubSolve(problem, objective, navigation_point,
                             lower_bounds, upper_bounds, choice)
             lower_bound == res.optimal_objectives[objective.symbol]
             upper_bound == navigation_point[objective.symbol]
         IN IF ~res.success
            THEN BoundsFailure(objective, res, lower_bounds, upper_bounds,
                               Append(solves, objective.symbol))
            ELSE BoundsLoopInOrder(problem, navigation_point, choice, order,
                    k + 1,
                    DictSet(lower_bounds, objective.symbol,
                        OrderBounds(objective, lower_bound,
                                    upper_bound).lower),
                    DictSet(upper_bounds, objective.symbol,
                        OrderBounds(objective, lower_bound,
                                    upper_bound).upper),
                    Append(solves, objective.symbol))

\* changed: an incompletely defined ideal or nadir point is refused
solve_reachable_bounds_checked(problem, navigation_point, choice) ==
    IF \E s \in Symbols(problem) :
            problem.ideal[s] = Undefined \/ problem.nadir[s] = Undefined
    THEN [raised |-> TRUE, message |-> <<"ideal_nadir">>, bounds |-> None,
          solves |-> << >>]
    ELSE BoundsLoop(problem, navigation_point, choice, 1, EmptyDict,
                    EmptyDict, << >>)

\* lines 109-167
solve_reachable_bounds(problem, navigation_point, choice) ==
    BoundsLoop(problem, navigation_point, choice, 1, EmptyDict, EmptyDict,
               << >>)

\* returns the solver's result whatever its success flag
solve_reachable_solution(problem, reference_point, previous_nav_point, asf_result) ==
    asf_result

NormSq(a, b) ==
    LET RECURSIVE Sum(_)
        Sum(i) == IF i = 0 THEN R(0)
                  ELSE RAdd(Sum(i - 1),
                            RMul(RSub(a[i], b[i]), RSub(a[i], b[i])))
    IN Sum(Len(a))

\* changed: the error is raised only when no component is defined
calculate_distance_to_front_all_undefined(problem, navigation_point, reachable_objective_vector) ==
    LET nadir_point == objective_dict_to_numpy_array(problem,
                                                     get_nadir_dict(problem))
    IN IF \A i \in DOMAIN nadir_point : nadir_point[i] = Undefined
       THEN [raised |-> TRUE, message |-> <<"nadir">>, value |-> R(0)]
       ELSE LET z_nav == objective_dict_to_numpy_array(problem,
                                                       navigation_point)
                f == objective_dict_to_numpy_array(problem,
                                                   reachable_objective_vector)
                num == NormSq(z_nav, nadir_point)
                den == NormSq(f, nadir_point)
            IN [raised |-> FALSE, message |-> << >>,
                value |-> IF den[1] = 0
                          THEN (IF num[1] = 0 THEN <<0, 0>> ELSE <<1, 0>>)
                          ELSE RMul(R(10000), RDiv(num, den))]

\* changed: the two distances are exchanged
calculate_distance_to_front_inverted(problem, navigation_point, reachable_objective_vector) ==
    LET nadir_point == objective_dict_to_numpy_array(problem,
                                                     get_nadir_dict(problem))
    IN IF \E i \in DOMAIN nadir_point : nadir_point[i] = Undefined
       THEN [raised |-> TRUE, message |-> <<"nadir">>, value |-> R(0)]
       ELSE LET z_nav == objective_dict_to_numpy_array(problem,
                                                       navigation_point)
                f == objective_dict_to_numpy_array(problem,
                                                   reachable_objective_vector)
                num == NormSq(f, nadir_point)
                den == NormSq(z_nav, nadir_point)
            IN [raised |-> FALSE, message |-> << >>,
                value |-> IF den[1] = 0
                          THEN (IF num[1] = 0 THEN <<0, 0>> ELSE <<1, 0>>)
                          ELSE RMul(R(10000), RDiv(num, den))]

\* changed: the distance still to go is reported, not the distance covered
calculate_distance_to_front_remaining(problem, navigation_point, reachable_objective_vector) ==
    LET nadir_point == objective_dict_to_numpy_array(problem,
                                                     get_nadir_dict(problem))
    IN IF \E i \in DOMAIN nadir_point : nadir_point[i] = Undefined
       THEN [raised |-> TRUE, message |-> <<"nadir">>, value |-> R(0)]
       ELSE LET z_nav == objective_dict_to_numpy_array(problem,
                                                       navigation_point)
                f == objective_dict_to_numpy_array(problem,
                                                   reachable_objective_vector)
                num == NormSq(z_nav, f)
                den == NormSq(f, nadir_point)
            IN [raised |-> FALSE, message |-> << >>,
                value |-> IF den[1] = 0
                          THEN (IF num[1] = 0 THEN <<0, 0>> ELSE <<1, 0>>)
                          ELSE RMul(R(10000), RDiv(num, den))]

\* changed: the two distances are measured from the ideal point
calculate_distance_to_front_from_ideal(problem, navigation_point, reachable_objective_vector) ==
    LET nadir_point == objective_dict_to_numpy_array(problem,
                                                     get_nadir_dict(problem))
        ideal_point == objective_dict_to_numpy_array(problem, problem.ideal)
    IN IF \E i \in DOMAIN nadir_point : nadir_point[i] = Undefined
       THEN [raised |-> TRUE, message |-> <<"nadir">>, value |-> R(0)]
       ELSE LET z_nav == objective_dict_to_numpy_array(problem,
                                                       navigation_point)
                f == objective_dict_to_numpy_array(problem,
                                                   reachable_objective_vector)
                num == NormSq(z_nav, ideal_point)
                den == NormSq(f, ideal_point)
            IN [raised |-> FALSE, message |-> << >>,
                value |-> IF den[1] = 0
                          THEN (IF num[1] = 0 THEN <<0, 0>> ELSE <<1, 0>>)
                          ELSE RMul(R(10000), RDiv(num, den))]

\* The value returned is the square of the percentage the code returns:
\* (|z_nav - nadir| / |f - nadir| * 100)^2; <<0,0>> is nan and <<1,0>> is inf.
calculate_distance_to_front(problem, navigation_point, reachable_objective_vector) ==
    LET nadir_point == objective_dict_to_numpy_array(problem,
                                                     get_nadir_dict(problem))
    IN IF \E i \in DOMAIN nadir_point : nadir_point[i] = Undefined
       THEN [raised |-> TRUE, message |-> <<"nadir">>, value |-> R(0)]
       ELSE LET z_nav == objective_dict_to_numpy_array(problem,
                                                       navigation_point)
                f == objective_dict_to_numpy_array(problem,
                                                   reachable_objective_vector)
                num == NormSq(z_nav, nadir_point)
                den == NormSq(f, nadir_point)
            IN [raised |-> FALSE, message |-> << >>,
                value |-> IF den[1] = 0
                          THEN (IF num[1] = 0 THEN <<0, 0>> ELSE <<1, 0>>)
                          ELSE RMul(R(10000), RDiv(num, den))]

NAUTILUS_Response(step_number, distance_to_front, reference_point, navigation_point, reachable_solution, reachable_bounds) ==
    [step_number |-> step_number,
     distance_to_front |-> distance_to_front,
     reference_point |-> reference_point,
     navigation_point |-> navigation_point,
     reachable_solution |-> reachable_solution,
     reachable_bounds |-> reachable_bounds]

Raise(message, solves) ==
    [raised |-> TRUE, message |-> message, response |-> None,
     solves |-> solves]

\* changed: the navigation starts from the ideal point
navigator_init_from_ideal(problem, choice) ==
    LET nav_point == problem.ideal
        b == solve_reachable_bounds(problem, nav_point, choice)
    IN IF b.raised THEN Raise(b.message, b.solves)
       ELSE [raised |-> FALSE, message |-> << >>,
             response |-> Some(NAUTILUS_Response(0, R(0), None, nav_point,
                                                 None, The(b.bounds))),
             solves |-> b.solves]

\* lines 267-276
navigator_init(problem, choice) ==
    LET nav_point == get_nadir_dict(problem)
        b == solve_reachable_bounds(problem, nav_point, choice)
    IN IF b.raised THEN Raise(b.message, b.solves)
       ELSE [raised |-> FALSE, message |-> << >>,
             response |-> Some(NAUTILUS_Response(0, R(0), None, nav_point,
                                                 None, The(b.bounds))),
             solves |-> b.solves]

\* changed: the check for both inputs given is missing
PreferenceError_neither_only(reference_point, reachable_solution) ==
    IF reference_point = None /\ reachable_solution = None
    THEN <<"either">>
    ELSE << >>

\* lines 309-313: the message of the error raised for the pair of optional
\* preference inputs, << >> when none is raised
PreferenceError(reference_point, reachable_solution) ==
    IF reference_point = None /\ reachable_solution = None
    THEN <<"either">>
    ELSE IF reference_point # None /\ reachable_solution # None
         THEN <<"only_one">>
         ELSE << >>

\* reference_point and reachable_solution are optional; asf_result is what
\* the solver returns for the scalarized problem if it is asked, choice what
\* the epsilon-constraint sub-solves are told to do.
navigator_step(problem, steps_remaining, step_number, nav_point, reference_point, reachable_solution, asf_result, choice) ==
    IF PreferenceError(reference_point, reachable_solution) # << >>
    THEN Raise(PreferenceError(reference_point, reachable_solution), << >>)
    ELSE
    LET opt_result == solve_reachable_solution(problem, The(reference_point),
                                               nav_point, asf_result)
        reachable_point == IF reference_point # None
                           THEN opt_result.optimal_objectives
                           ELSE The(reachable_solution)
        solves0 == IF reference_point # None THEN <<"asf">> ELSE << >>
        np == calculate_navigation_point(problem, nav_point, reachable_point,
                                         steps_remaining)
    IN IF np.raised THEN Raise(np.message, solves0)
       ELSE
       LET new_nav_point == The(np.value)
           b == solve_reachable_bounds(problem, new_nav_point, choice)
       IN IF b.raised THEN Raise(b.message, solves0 \o b.solves)
          ELSE
          LET distance == calculate_distance_to_front(problem, new_nav_point,
                                                      reachable_point)
          IN IF distance.raised
             THEN Raise(distance.message, solves0 \o b.solves)
             ELSE [raised |-> FALSE, message |-> << >>,
                   response |-> Some(NAUTILUS_Response(step_number,
                                        distance.value, reference_point,
                                        new_nav_point, Some(reachable_point),
                                        The(b.bounds))),
                   solves |-> solves0 \o b.solves]

\* ------------------------------------------------------ history functions
\* all_responses[i] with Python's index rules; {} when i is out of range
PyIndex(responses, i) ==
    IF 0 <= i /\ i < Len(responses) THEN Some(responses[i + 1])
    ELSE IF i < 0 /\ -Len(responses) <= i
         THEN Some(responses[Len(responses) + i + 1])
         ELSE None

relevant_indices(responses, step_number) ==
    {i \in 0 .. Len(responses) - 1 : responses[i + 1].step_number = step_number}

SetMax(S) == CHOOSE m \in S : \A x \in S : x <= m

\* changed: the earliest matching index (relevant_indices[0])
step_back_index_first(responses, step_number) ==
    IF relevant_indices(responses, step_number) = {}
    THEN [raised |-> TRUE, error |-> "IndexError", index |-> 0]
    ELSE [raised |-> FALSE, error |-> "",
          index |-> CHOOSE m \in relevant_indices(responses, step_number) :
                       \A x \in relevant_indices(responses, step_number) :
                           m <= x]

\* changed: with no matching entry the last position is returned
step_back_index_default(responses, step_number) ==
    IF relevant_indices(responses, step_number) = {}
    THEN [raised |-> FALSE, error |-> "", index |-> Len(responses) - 1]
    ELSE [raised |-> FALSE, error |-> "",
          index |-> SetMax(relevant_indices(responses, step_number))]

step_back_index(responses, step_number) ==
    IF relevant_indices(responses, step_number) = {}
    THEN [raised |-> TRUE, error |-> "IndexError", index |-> 0]
    ELSE [raised |-> FALSE, error |-> "",
          index |-> SetMax(relevant_indices(responses, step_number))]

Reversed(s) == [i \in 1 .. Len(s) |-> s[Len(s) + 1 - i]]

\* inner while loop: steps current_index down until the entry there has
\* step number total_steps; None when the index runs out of range
RECURSIVE FindStep(_, _, _)
FindStep(all_responses, current_index, total_steps) ==
    LET next_index == current_index - 1
        entry == PyIndex(all_responses, next_index)
    IN IF entry = None THEN None
       ELSE IF The(entry).step_number = total_steps THEN Some(next_index)
            ELSE FindStep(all_responses, next_index, total_steps)

RECURSIVE PathLoop(_, _, _, _)
PathLoop(all_responses, current_index, total_steps, path) ==
    IF total_steps < 0
    THEN [raised |-> FALSE, error |-> "", path |-> Reversed(path)]
    ELSE LET found == FindStep(all_responses, current_index, total_steps)
         IN IF found = None
            THEN [raised |-> TRUE, error |-> "IndexError", path |-> << >>]
            ELSE PathLoop(all_responses, The(found), total_steps - 1,
                          Append(path, The(found)))

\* changed: the collected path is returned without reversing it
get_current_path_unreversed(all_responses) ==
    IF Len(all_responses) = 0
    THEN [raised |-> TRUE, error |-> "IndexError", path |-> << >>]
    ELSE LET r == PathLoop(all_responses, Len(all_responses) - 1,
                      all_responses[Len(all_responses)].step_number - 1,
                      << Len(all_responses) - 1 >>)
         IN [r EXCEPT !.path = Reversed(r.path)]

\* changed: a step number that is not found is skipped
RECURSIVE PathLoopSkip(_, _, _, _)
PathLoopSkip(all_responses, current_index, total_steps, path) ==
    IF total_steps < 0
    THEN [raised |-> FALSE, error |-> "", path |-> Reversed(path)]
    ELSE LET found == FindStep(all_responses, current_index, total_steps)
         IN IF found = None
            THEN PathLoopSkip(all_responses, current_index, total_steps - 1,
                              path)
            ELSE PathLoopSkip(all_responses, The(found), total_steps - 1,
                              Append(path, The(found)))

get_current_path_skip(all_responses) ==
    IF Len(all_responses) = 0
    THEN [raised |-> TRUE, error |-> "IndexError", path |-> << >>]
    ELSE PathLoopSkip(all_responses, Len(all_responses) - 1,
                      all_responses[Len(all_responses)].step_number - 1,
                      << Len(all_responses) - 1 >>)

\* changed: for every step number the entry step_back_index finds is taken
get_current_path_latest(all_responses) ==
    IF Len(all_responses) = 0
    THEN [raised |-> TRUE, error |-> "IndexError", path |-> << >>]
    ELSE LET total_steps == all_responses[Len(all_responses)].step_number
         IN IF \E k \in 0 .. total_steps :
                    step_back_index(all_responses, k).raised
            THEN [raised |-> TRUE, error |-> "IndexError", path |-> << >>]
            ELSE [raised |-> FALSE, error |-> "",
                  path |-> [k \in 1 .. total_steps + 1 |->
                               IF k = total_steps + 1
                               THEN Len(all_responses) - 1
                               ELSE step_back_index(all_responses,
                                                    k - 1).index]]

\* changed: the positions are counted from 1
get_current_path_one_based(all_responses) ==
    IF Len(all_responses) = 0
    THEN [raised |-> TRUE, error |-> "IndexError", path |-> << >>]
    ELSE LET r == PathLoop(all_responses, Len(all_responses) - 1,
                      all_responses[Len(all_responses)].step_number - 1,
                      << Len(all_responses) - 1 >>)
         IN [r EXCEPT !.path = [i \in DOMAIN r.path |-> r.path[i] + 1]]

get_current_path(all_responses) ==
    IF Len(all_responses) = 0
    THEN [raised |-> TRUE, error |-> "IndexError", path |-> << >>]
    ELSE PathLoop(all_responses, Len(all_responses) - 1,
                  all_responses[Len(all_responses)].step_number - 1,
                  << Len(all_responses) - 1 >>)


\* ------------------------------------------------------------------ state
VARIABLES
    history,             \* the caller's response history (append-only list)
    args,                \* arguments of the call in progress / last call
    pc,                  \* position of navigator_all_steps
    previous_responses,  \* navigator_all_steps: the list it was handed
    responses,           \* navigator_all_steps: local list of new responses
    response,            \* navigator_all_steps: Response of this iteration
    nav_point,           \* navigator_all_steps: local
    step_number,         \* navigator_all_steps: local
    steps_remaining,     \* navigator_all_steps: parameter, counted down
    first_iteration,     \* navigator_all_steps: local
    reachable_solution,  \* navigator_all_steps: local
    solver_log,          \* solver invocations of the call in progress
    ret,                 \* outcome of the last completed call
    reader,              \* a concurrent history reader: position and locals
    memo,                \* the caller's note of the outcome of an earlier call
    db                   \* the API's database: problems, archive, preferences

vars == <<history, args, pc, previous_responses, responses, response,
          nav_point, step_number, steps_remaining, first_iteration,
          reachable_solution, solver_log, ret, reader, memo, db>>

locals == <<previous_responses, responses, response, nav_point, step_number,
            steps_remaining, first_iteration, reachable_solution>>

NoArgs == [op |-> "none"]
NoDb == [problems |-> << >>, archive |-> << >>, preferences |-> << >>]
NoRet == [op |-> "none", raised |-> FALSE]

Choices == [Symbols(TestProblem) -> SolverChoices]

RefPoints == {Pt(1, 3)}

\* the reader before its first call
ReaderIdle ==
    [op |-> "none", pc |-> "idle", step_number |-> 0, total_steps |-> 0,
     current_index |-> 0, path |-> << >>, i |-> 0,
     relevant_indices |-> << >>, raised |-> FALSE, index |-> 0,
     start_len |-> 0, len438 |-> 0, len439 |-> 0, end_len |-> 0]

IdleLocals ==
    /\ pc = "idle"
    /\ reader = ReaderIdle
    /\ memo = None
    /\ previous_responses = << >>
    /\ responses = << >>
    /\ response = None
    /\ nav_point = TestProblem.nadir
    /\ step_number = 0
    /\ steps_remaining = 0
    /\ first_iteration = TRUE
    /\ reachable_solution = None
    /\ solver_log = << >>

Init ==
    /\ history = << >>
    /\ args = NoArgs
    /\ ret = NoRet
    /\ IdleLocals
    /\ db = NoDb

\* ---------------------------------------------------------------- actions
\* The caller starts a session: navigator_init, whose response becomes the
\* first history entry.
InitCall ==
    /\ pc = "idle"
    /\ history = << >>
    /\ \E choice \in Choices :
        LET r == navigator_init(TestProblem, choice)
        IN /\ history' = IF r.raised THEN history
                         ELSE <<The(r.response)>>
           /\ ret' = [op |-> "navigator_init", raised |-> r.raised,
                      message |-> r.message, response |-> r.response,
                      solves |-> r.solves]
    /\ args' = [op |-> "navigator_init"]
    /\ UNCHANGED <<pc, locals, solver_log, reader, memo, db>>

\* navigator_all_steps is entered (lines 369-373).  The caller hands it the
\* history up to the entry step_back_index finds for a step number k.
AllStepsCallUpTo(k, n, ref, max_len) ==
    /\ pc = "idle"
    /\ history # << >>
    /\ ~step_back_index(history, k).raised
    /\ Len(history) + n <= max_len
    /\ LET prev == SubSeq(history, 1, step_back_index(history, k).index + 1)
       IN /\ previous_responses' = prev
          /\ nav_point' = prev[Len(prev)].navigation_point
          /\ step_number' = prev[Len(prev)].step_number + 1
    /\ responses' = << >>
    /\ response' = None
    /\ first_iteration' = TRUE
    /\ reachable_solution' = None
    /\ steps_remaining' = n
    /\ args' = [op |-> "navigator_all_steps", steps_remaining |-> n,
                reference_point |-> ref]
    /\ solver_log' = << >>
    /\ ret' = NoRet
    /\ pc' = "loop"
    /\ UNCHANGED <<history, reader, memo, db>>

AllStepsCall(k, n, ref) == AllStepsCallUpTo(k, n, ref, MaxHist)

\* changed: the new response is appended to the list handed in as well
AppendResponse_to_previous(prev, resps, r) ==
    [previous_responses |-> Append(prev, r), responses |-> Append(resps, r)]

\* line 395: the lists after responses.append(response)
AppendResponse(prev, resps, r) ==
    [previous_responses |-> prev, responses |-> Append(resps, r)]

\* changed: first_iteration is never cleared
AfterFirstStep_kept(first) == first

\* line 384: first_iteration after the first navigator_step returned
AfterFirstStep(first) == FALSE

\* changed: step_number is not advanced
NextCounters_same_step(steps_rem, step_no) ==
    [steps_remaining |-> steps_rem - 1, step_number |-> step_no]

\* lines 398-399: the counters after one pass
NextCounters(steps_rem, step_no) ==
    [steps_remaining |-> steps_rem - 1, step_number |-> step_no + 1]

\* changed: the assignment overwrites reachable_solution instead
StampResponse_wrong_field(r, reference_point) ==
    [r EXCEPT !.reachable_solution = Some(reference_point)]

\* line 394: the response after the assignment to its reference_point
StampResponse(r, reference_point) ==
    [r EXCEPT !.reference_point = Some(reference_point)]

\* changed: the loop keeps the navigation point it started from
NextNavPoint_kept(nav, r) == nav

\* line 397: the navigation point the next pass starts from
NextNavPoint(nav, r) == r.navigation_point

LogEntries(solves, from) ==
    [i \in 1 .. Len(solves) |->
        [solve |-> solves[i], nav_point |-> from,
         iteration |-> Len(responses) + 1]]

\* one pass of the loop up to the return of navigator_step (lines 374-393)
AllStepsIter ==
    /\ pc = "loop"
    /\ steps_remaining > 0
    /\ \E choice \in Choices :
       \E asf \in AsfSolverResults(TestProblem, args.reference_point,
                                   nav_point) :
        LET r == IF first_iteration
                 THEN navigator_step(TestProblem, steps_remaining,
                          step_number, nav_point,
                          Some(args.reference_point), None, asf, choice)
                 ELSE navigator_step(TestProblem, steps_remaining,
                          step_number, nav_point,
                          None, reachable_solution, asf, choice)
        IN /\ solver_log' = solver_log \o LogEntries(r.solves, nav_point)
           /\ IF r.raised
              THEN /\ pc' = "raised"
                   /\ ret' = [op |-> "navigator_all_steps",
                              raised |-> TRUE, message |-> r.message,
                              responses |-> << >>]
                   /\ responses' = << >>
                   /\ response' = None
                   /\ UNCHANGED first_iteration
              ELSE /\ pc' = "stamp"
                   /\ response' = r.response
                   /\ first_iteration' = IF first_iteration
                                          THEN AfterFirstStep(first_iteration)
                                          ELSE first_iteration
                   /\ UNCHANGED <<ret, responses>>
    /\ UNCHANGED <<history, args, previous_responses, nav_point, step_number,
                   steps_remaining, reachable_solution, reader, memo, db>>

\* rest of the loop body (lines 394-399)
AllStepsStamp ==
    /\ pc = "stamp"
    /\ LET r == StampResponse(The(response), args.reference_point)
           a == AppendResponse(previous_responses, responses, r)
       IN /\ response' = Some(r)
          /\ responses' = a.responses
          /\ previous_responses' = a.previous_responses
          /\ reachable_solution' = r.reachable_solution
          /\ nav_point' = NextNavPoint(nav_point, r)
    /\ steps_remaining' =
            NextCounters(steps_remaining, step_number).steps_remaining
    /\ step_number' = NextCounters(steps_remaining, step_number).step_number
    /\ pc' = "loop"
    /\ UNCHANGED <<history, args, first_iteration, solver_log, ret, reader, memo, db>>

\* the loop ends and the list is returned (line 400)
AllStepsReturn ==
    /\ pc = "loop"
    /\ steps_remaining <= 0
    /\ pc' = "returned"
    /\ ret' = [op |-> "navigator_all_steps", raised |-> FALSE,
               message |-> << >>, responses |-> responses]
    /\ UNCHANGED <<history, args, locals, solver_log, reader, memo, db>>

ResetLocals ==
    /\ previous_responses' = << >>
    /\ responses' = << >>
    /\ response' = None
    /\ nav_point' = TestProblem.nadir
    /\ step_number' = 0
    /\ steps_remaining' = 0
    /\ first_iteration' = TRUE
    /\ reachable_solution' = None
    /\ solver_log' = << >>

\* the caller appends the returned responses to its history
CallerAppend ==
    /\ pc = "returned"
    /\ history' = history \o ret.responses
    /\ pc' = "idle"
    /\ ResetLocals
    /\ UNCHANGED <<args, ret, reader, memo, db>>

\* the caller sees the exception; nothing is appended
CallerCatch ==
    /\ pc = "raised"
    /\ pc' = "idle"
    /\ ResetLocals
    /\ UNCHANGED <<history, args, ret, reader, memo, db>>

StepBackIndexCall(k) ==
    /\ pc = "idle"
    /\ LET r == step_back_index(history, k)
       IN ret' = [op |-> "step_back_index", raised |-> r.raised,
                  error |-> r.error, index |-> r.index]
    /\ args' = [op |-> "step_back_index", step_number |-> k]
    /\ UNCHANGED <<history, pc, locals, solver_log, reader, memo, db>>

GetCurrentPathCall ==
    /\ pc = "idle"
    /\ LET r == get_current_path(history)
       IN ret' = [op |-> "get_current_path", raised |-> r.raised,
                  error |-> r.error, path |-> r.path]
    /\ args' = [op |-> "get_current_path"]
    /\ UNCHANGED <<history, pc, locals, solver_log, reader, memo, db>>

Next ==
    \/ InitCall
    \/ \E k \in 0 .. MaxHist, n \in -1 .. MaxN, ref \in RefPoints :
            AllStepsCall(k, n, ref)
    \/ AllStepsIter
    \/ AllStepsStamp
    \/ AllStepsReturn
    \/ CallerAppend
    \/ CallerCatch
    \/ \E k \in 0 .. MaxHist : StepBackIndexCall(k)
    \/ GetCurrentPathCall

Spec == Init /\ [][Next]_vars


\* ---------------------- the protocol with a solver that finds the optimum
\* The same calls in sessions in which every solve succeeds and the
\* projection is Pareto optimal, up to MaxProto history entries.
SolverSucceeded ==
    /\ pc' = "stamp"
    /\ The(response').reachable_solution
            \in {Some(p) : p \in TestProblem.feasible \ {TestProblem.nadir}}

NextProto ==
    \/ InitCall /\ ~ret'.raised
    \/ \E k \in 0 .. MaxStepNo, n \in 1 .. MaxN, ref \in RefPoints :
            AllStepsCallUpTo(k, n, ref, MaxProto)
    \/ AllStepsIter /\ SolverSucceeded
    \/ AllStepsStamp
    \/ AllStepsReturn
    \/ CallerAppend
    \/ history # << >> /\ GetCurrentPathCall

SpecProto == Init /\ [][NextProto]_vars

\* ------------------------------------- the history functions on any history
StepNos(h) == [i \in DOMAIN h |-> h[i].step_number]

HistEntry(s) ==
    NAUTILUS_Response(s, R(0), None, TestProblem.nadir, None,
                      [lower_bounds |-> TestProblem.nadir,
                       upper_bounds |-> TestProblem.nadir])

InitHist ==
    /\ history \in {[i \in DOMAIN f |-> HistEntry(f[i])] :
                       f \in UNION {[1 .. n -> 0 .. MaxStepNo] :
                                       n \in 0 .. MaxLen}}
    /\ args = NoArgs
    /\ ret = NoRet
    /\ IdleLocals
    /\ db = NoDb

NextHist ==
    \/ \E k \in 0 .. MaxStepNo + 1 : StepBackIndexCall(k)
    \/ GetCurrentPathCall

SpecHist == InitHist /\ [][NextHist]_vars

\* --------------------------------------- the navigator functions directly
NavInputs == {Pt(2, 0), Pt(1, 2), Pt(0, 4)}
ReachInputs == {Pt(1, 3), Pt(2, 0)}

InitStep ==
    /\ args \in [op : {"direct"},
                 problem : Problems,
                 steps_remaining : -1 .. MaxN,
                 step_number : {1, 2},
                 nav_point : NavInputs,
                 reference_point : {None} \cup {Some(p) : p \in RefPoints},
                 reachable_solution :
                    {None} \cup {Some(p) : p \in ReachInputs}]
    /\ history = << >>
    /\ ret = NoRet
    /\ IdleLocals
    /\ db = NoDb

\* changed: the lower bounds left by the last bounds computation are taken
\* for the navigation point
StepNavPoint_cached ==
    IF ret.op = "solve_reachable_bounds" /\ ~ret.raised
    THEN The(ret.bounds).lower_bounds
    ELSE args.nav_point

\* lines 279-287: the navigation point navigator_step works on is its
\* argument nav_point
StepNavPoint == args.nav_point

NavigatorStepCall ==
    /\ args.op = "direct"
    /\ \E choice \in Choices :
       \E asf \in AsfSolverResults(args.problem, args.reference_point,
                                   args.nav_point) :
        LET r == navigator_step(args.problem, args.steps_remaining,
                     args.step_number, StepNavPoint, args.reference_point,
                     args.reachable_solution, asf, choice)
        IN ret' = [op |-> "navigator_step", raised |-> r.raised,
                   message |-> r.message, response |-> r.response,
                   solves |-> r.solves, asf |-> asf, choice |-> choice]
    /\ UNCHANGED <<history, args, pc, locals, solver_log, reader, memo, db>>

SolveReachableBoundsCall ==
    /\ args.op = "direct"
    /\ \E choice \in Choices :
        LET r == solve_reachable_bounds(args.problem, args.nav_point, choice)
        IN ret' = [op |-> "solve_reachable_bounds", raised |-> r.raised,
                   message |-> r.message, bounds |-> r.bounds,
                   solves |-> r.solves, choice |-> choice]
    /\ UNCHANGED <<history, args, pc, locals, solver_log, reader, memo, db>>

\* the orders in which the sub-solves of the objectives can be taken
Orders(problem) ==
    {o \in [DOMAIN problem.objectives -> DOMAIN problem.objectives] :
        \A i, j \in DOMAIN o : i # j => o[i] # o[j]}

\* solve_reachable_bounds with its sub-solves executed in another order
SolveReachableBoundsInOrderCall ==
    /\ args.op = "direct"
    /\ \E choice \in Choices, order \in Orders(args.problem) :
        LET r == BoundsLoopInOrder(args.problem, args.nav_point, choice,
                                   order, 1, EmptyDict, EmptyDict, << >>)
        IN ret' = [op |-> "solve_reachable_bounds_in_order",
                   raised |-> r.raised, message |-> r.message,
                   bounds |-> r.bounds, solves |-> r.solves,
                   choice |-> choice, order |-> order]
    /\ UNCHANGED <<history, args, pc, locals, solver_log, reader, memo, db>>

CalculateNavigationPointCall ==
    /\ args.op = "direct"
    /\ \E f \in ReachInputs :
        LET r == calculate_navigation_point(args.problem, args.nav_point, f,
                                            args.steps_remaining)
        IN ret' = [op |-> "calculate_navigation_point", raised |-> r.raised,
                   message |-> r.message, value |-> r.value, f |-> f]
    /\ UNCHANGED <<history, args, pc, locals, solver_log, reader, memo, db>>

CalculateDistanceToFrontCall ==
    /\ args.op = "direct"
    /\ \E f \in ReachInputs :
        LET r == calculate_distance_to_front(args.problem, args.nav_point, f)
        IN ret' = [op |-> "calculate_distance_to_front",
                   raised |-> r.raised, message |-> r.message,
                   value |-> IF r.raised THEN None ELSE Some(r.value),
                   f |-> f]
    /\ UNCHANGED <<history, args, pc, locals, solver_log, reader, memo, db>>

NextStep ==
    \/ NavigatorStepCall
    \/ SolveReachableBoundsCall
    \/ SolveReachableBoundsInOrderCall
    \/ CalculateNavigationPointCall
    \/ CalculateDistanceToFrontCall

SpecStep == InitStep /\ [][NextStep]_vars

\* ------------------------------ the same call made again, others between
\* The caller notes the outcome of one call of navigator_step or
\* solve_reachable_bounds and goes on calling the navigator functions with
\* the same arguments.
InitDet ==
    /\ args \in [op : {"direct"},
                 problem : {TestProblem, NoNadirProblem},
                 steps_remaining : {1, 2},
                 step_number : {1},
                 nav_point : NavInputs,
                 reference_point : {None} \cup {Some(p) : p \in RefPoints},
                 reachable_solution :
                    {None} \cup {Some(p) : p \in ReachInputs}]
    /\ history = << >>
    /\ ret = NoRet
    /\ IdleLocals
    /\ db = NoDb

Remember ==
    /\ memo = None
    /\ ret.op \in {"navigator_step", "solve_reachable_bounds"}
    /\ memo' = Some(ret)
    /\ ret' = NoRet
    /\ UNCHANGED <<history, args, pc, locals, solver_log, reader, db>>

NextDet ==
    \/ NavigatorStepCall
    \/ SolveReachableBoundsCall
    \/ CalculateNavigationPointCall
    \/ CalculateDistanceToFrontCall
    \/ Remember

SpecDet == InitDet /\ [][NextDet]_vars


\* ------------------- the history functions beside a writer that appends
\* The reader executes get_current_path or step_back_index one list access
\* at a time on the caller's history while the writer appends to it.  The
\* fields start_len, len438, len439 and end_len record the length of the
\* history at the call, at the two reads of lines 438 and 439 and at the
\* return.

\* line 438: total_steps = all_responses[-1].step_number
Line438(rd, all_responses) ==
    IF Len(all_responses) = 0
    THEN [rd EXCEPT !.pc = "done", !.raised = TRUE,
                    !.end_len = Len(all_responses)]
    ELSE [rd EXCEPT !.pc = "line439",
                    !.total_steps =
                        all_responses[Len(all_responses)].step_number,
                    !.len438 = Len(all_responses)]

\* lines 439-441: current_index = len(all_responses) - 1 and the locals
Line439(rd, all_responses) ==
    [rd EXCEPT !.pc = "loop",
               !.current_index = Len(all_responses) - 1,
               !.path = <<Len(all_responses) - 1>>,
               !.total_steps = rd.total_steps - 1,
               !.len439 = Len(all_responses)]

\* changed: an index that has run out of range starts again at the end
PathStep_wrapping(rd, all_responses) ==
    IF rd.total_steps < 0
    THEN [rd EXCEPT !.pc = "done", !.path = Reversed(rd.path),
                    !.end_len = Len(all_responses)]
    ELSE LET next_index == rd.current_index - 1
             entry == PyIndex(all_responses, next_index)
         IN IF entry = None
            THEN [rd EXCEPT !.current_index = Len(all_responses)]
            ELSE IF The(entry).step_number = rd.total_steps
                 THEN [rd EXCEPT !.current_index = next_index,
                                 !.path = Append(rd.path, next_index),
                                 !.total_steps = rd.total_steps - 1]
                 ELSE [rd EXCEPT !.current_index = next_index]

\* lines 443-451: the loop test and, inside the loop, one pass of the
\* inner loop with its one list access
PathStep(rd, all_responses) ==
    IF rd.total_steps < 0
    THEN [rd EXCEPT !.pc = "done", !.path = Reversed(rd.path),
                    !.end_len = Len(all_responses)]
    ELSE LET next_index == rd.current_index - 1
             entry == PyIndex(all_responses, next_index)
         IN IF entry = None
            THEN [rd EXCEPT !.pc = "done", !.raised = TRUE, !.path = << >>,
                            !.current_index = next_index,
                            !.end_len = Len(all_responses)]
            ELSE IF The(entry).step_number = rd.total_steps
                 THEN [rd EXCEPT !.current_index = next_index,
                                 !.path = Append(rd.path, next_index),
                                 !.total_steps = rd.total_steps - 1]
                 ELSE [rd EXCEPT !.current_index = next_index]

\* line 419, one pass of the comprehension over enumerate(responses), here resps: the
\* list iterator compares its position with the length the list has now;
\* when it is exhausted, line 421
IterStep(rd, resps) ==
    IF rd.i < Len(resps)
    THEN [rd EXCEPT !.i = rd.i + 1,
                    !.relevant_indices =
                        IF resps[rd.i + 1].step_number = rd.step_number
                        THEN Append(rd.relevant_indices, rd.i)
                        ELSE rd.relevant_indices]
    ELSE IF rd.relevant_indices = << >>
         THEN [rd EXCEPT !.pc = "done", !.raised = TRUE,
                         !.end_len = Len(resps)]
         ELSE [rd EXCEPT !.pc = "done",
                         !.index = rd.relevant_indices[
                                       Len(rd.relevant_indices)],
                         !.end_len = Len(resps)]

InitConc ==
    /\ history = <<HistEntry(0)>>
    /\ args = NoArgs
    /\ ret = NoRet
    /\ IdleLocals
    /\ db = NoDb

ReaderCallGetCurrentPath ==
    /\ reader.pc \in {"idle", "done"}
    /\ reader' = [ReaderIdle EXCEPT !.op = "get_current_path",
                                    !.pc = "line438",
                                    !.start_len = Len(history)]
    /\ UNCHANGED <<history, args, pc, locals, solver_log, ret, memo, db>>

ReaderLine438 ==
    /\ reader.pc = "line438"
    /\ reader' = Line438(reader, history)
    /\ UNCHANGED <<history, args, pc, locals, solver_log, ret, memo, db>>

ReaderLine439 ==
    /\ reader.pc = "line439"
    /\ reader' = Line439(reader, history)
    /\ UNCHANGED <<history, args, pc, locals, solver_log, ret, memo, db>>

ReaderPathStep ==
    /\ reader.pc = "loop"
    /\ reader' = PathStep(reader, history)
    /\ UNCHANGED <<history, args, pc, locals, solver_log, ret, memo, db>>

ReaderCallStepBackIndex(k) ==
    /\ reader.pc \in {"idle", "done"}
    /\ reader' = [ReaderIdle EXCEPT !.op = "step_back_index",
                                    !.pc = "line419",
                                    !.step_number = k,
                                    !.start_len = Len(history)]
    /\ UNCHANGED <<history, args, pc, locals, solver_log, ret, memo, db>>

ReaderIterStep ==
    /\ reader.pc = "line419"
    /\ reader' = IterStep(reader, history)
    /\ UNCHANGED <<history, args, pc, locals, solver_log, ret, memo, db>>

\* the writer appends a response; its step number follows one that is
\* already in the history
WriterAppend(s) ==
    /\ Len(history) < MaxLen
    /\ \E i \in DOMAIN history : history[i].step_number = s - 1
    /\ history' = Append(history, HistEntry(s))
    /\ UNCHANGED <<args, pc, locals, solver_log, ret, reader, memo, db>>

NextConc ==
    \/ ReaderCallGetCurrentPath
    \/ ReaderLine438
    \/ ReaderLine439
    \/ ReaderPathStep
    \/ \E k \in 0 .. MaxStepNo : ReaderCallStepBackIndex(k)
    \/ ReaderIterStep
    \/ \E s \in 1 .. MaxStepNo : WriterAppend(s)

SpecConc == InitConc /\ [][NextConc]_vars

\* ------------------------- get_current_path run to its end on any history
\* One call at a time on a list nobody changes; the statements of a call
\* that has started are executed (weak fairness of the reader's steps).
InitTerm ==
    /\ history \in {[i \in DOMAIN f |-> HistEntry(f[i])] :
                       f \in UNION {[1 .. n -> 0 .. MaxStepNo] :
                                       n \in 0 .. MaxHist}}
    /\ args = NoArgs
    /\ ret = NoRet
    /\ IdleLocals
    /\ db = NoDb

NextTerm ==
    \/ ReaderCallGetCurrentPath
    \/ ReaderLine438
    \/ ReaderLine439
    \/ ReaderPathStep

SpecTerm ==
    /\ InitTerm
    /\ [][NextTerm]_vars
    /\ WF_vars(ReaderLine438)
    /\ WF_vars(ReaderLine439)
    /\ WF_vars(ReaderPathStep)


\* ------------------------------------------------------------ evaluator
\* Data frames are sequences of rows, a row a record of its columns.

\* decision variable values of the rows drawn
XPoints ==
    {[x_1 |-> 0, x_2 |-> 0], [x_1 |-> 1, x_2 |-> 0], [x_1 |-> 0, x_2 |-> 2]}

\* rows of a discrete representation: variable values and the value of f_2
DiscreteRows ==
    {[x_1 |-> x.x_1, x_2 |-> x.x_2, f_2 |-> v] : x \in XPoints, v \in {42, 69}}

SeqsUpTo(S, n) == UNION {[1 .. k -> S] : k \in 0 .. n}

\* lines 382-384 without the square root, which does not change the order:
\* sum((pl.col(var_symbol) - row[var_symbol]) ** 2 for var_symbol in ...)
RECURSIVE distance_expr(_, _, _)
distance_expr(drow, row, variable_symbols) ==
    IF variable_symbols = << >> THEN 0
    ELSE (drow[Head(variable_symbols)] - row[Head(variable_symbols)])
            * (drow[Head(variable_symbols)] - row[Head(variable_symbols)])
         + distance_expr(drow, row, Tail(variable_symbols))

RowOrders(n) ==
    {p \in [1 .. n -> 1 .. n] : \A i, j \in 1 .. n : i # j => p[i] # p[j]}

\* changed: the frame is sorted by descending distance
SortOutcomes_descending(combined_df, row, variable_symbols) ==
    {p \in RowOrders(Len(combined_df)) :
        \A i, j \in 1 .. Len(combined_df) :
            i < j => distance_expr(combined_df[p[i]], row, variable_symbols)
                        >= distance_expr(combined_df[p[j]], row,
                                         variable_symbols)}

\* line 388, combined_df.sort("distance"): the row orders the sort can
\* produce; rows at the same distance can come in any order
SortOutcomes(combined_df, row, variable_symbols) ==
    {p \in RowOrders(Len(combined_df)) :
        \A i, j \in 1 .. Len(combined_df) :
            i < j => distance_expr(combined_df[p[i]], row, variable_symbols)
                        <= distance_expr(combined_df[p[j]], row,
                                         variable_symbols)}

\* lines 376-392; sort_outcome[i] is the order the sort of pass i produced
find_closest_points(xs, discrete_df, variable_symbols, objective_symbol, sort_outcome) ==
    IF xs # << >> /\ discrete_df = << >>
    THEN [raised |-> TRUE, error |-> "IndexError", results |-> << >>]
    ELSE [raised |-> FALSE, error |-> "",
          results |-> [i \in 1 .. Len(xs) |->
                        discrete_df[sort_outcome[i][1]][objective_symbol]]]

\* the function of an analytical objective, evaluated on a row
EvalFunc(func, row) ==
    CASE func = "x_1 + x_2" -> row.x_1 + row.x_2
      [] func = "x_1 * x_2 - 3" -> row.x_1 * row.x_2 - 3

\* the problems evaluated: two objectives, each minimized or maximized;
\* f_1 is analytical, f_2 analytical or data-based (func is None)
EvalProblems ==
    {[objectives |->
        <<[symbol |-> "f_1", maximize |-> m1, func |-> Some("x_1 + x_2")],
          [symbol |-> "f_2", maximize |-> m2, func |-> f2]>>,
      variables |-> <<"x_1", "x_2">>] :
        m1, m2 \in BOOLEAN, f2 \in {Some("x_1 * x_2 - 3"), None}}

\* lines 203 and 226-229: (symbol, parsed expression) for an objective
\* with a function, a bare None for one without
objective_expressions(problem) ==
    [i \in DOMAIN problem.objectives |->
        IF problem.objectives[i].func # None
        THEN Some(<<problem.objectives[i].symbol,
                    The(problem.objectives[i].func)>>)
        ELSE None]

\* column names: <<symbol>> is the column symbol, <<symbol, "_min">> the
\* column f"{symbol}_min"
Col(symbol) == <<symbol>>
MinCol(symbol) == <<symbol, "_min">>

\* agg_df.hstack(columns): the frame with the columns added
hstack(df, columns) ==
    [c \in DOMAIN df \cup DOMAIN columns |->
        IF c \in DOMAIN columns THEN columns[c] ELSE df[c]]

\* lines 254-256: (symbol, -1 if maximize else 1)
objective_mix_max_mult(problem) ==
    [i \in DOMAIN problem.objectives |->
        <<problem.objectives[i].symbol,
          IF problem.objectives[i].maximize THEN -1 ELSE 1>>]

\* changed: the minimization form is reported as the objective value
objective_values_min_form(problem, agg_df) ==
    [symbol \in {problem.objectives[i].symbol : i \in DOMAIN problem.objectives}
        |-> agg_df[MinCol(symbol)]]

\* line 325: {symbol: agg_df[symbol].to_list() for symbol, _ in ...}
objective_values(problem, agg_df) ==
    [symbol \in {problem.objectives[i].symbol : i \in DOMAIN problem.objectives}
        |-> agg_df[Col(symbol)]]

\* lines 279-348 for a problem with no extra functions, constraints or
\* scalarizations; xs is the sequence of the rows of decision variable
\* values.  Line 293 unpacks every element of objective_expressions into
\* (symbol, expr): a bare None cannot be unpacked and raises TypeError.
polars_evaluate(problem, xs) ==
    IF \E i \in DOMAIN objective_expressions(problem) :
            objective_expressions(problem)[i] = None
    THEN [raised |-> TRUE, error |-> "TypeError",
          variable_values |-> << >>, objective_values |-> << >>,
          columns |-> {}]
    ELSE
    LET agg_df0 == [c \in {Col(v) : v \in {problem.variables[i] :
                                    i \in DOMAIN problem.variables}} |->
                       [r \in 1 .. Len(xs) |-> xs[r][c[1]]]]
        obj_cols == [c \in {Col(problem.objectives[i].symbol) :
                                i \in DOMAIN problem.objectives} |->
                       [r \in 1 .. Len(xs) |->
                           EvalFunc((CHOOSE e \in
                                        {The(objective_expressions(problem)[i]) :
                                         i \in DOMAIN problem.objectives} :
                                            e[1] = c[1])[2], xs[r])]]
        agg_df1 == hstack(agg_df0, obj_cols)
        mult == objective_mix_max_mult(problem)
        min_obj_columns ==
            [c \in {MinCol(mult[i][1]) : i \in DOMAIN mult} |->
                [r \in 1 .. Len(xs) |->
                    (CHOOSE m \in {mult[i] : i \in DOMAIN mult} :
                        m[1] = c[1])[2] * agg_df1[Col(c[1])][r]]]
        agg_df == hstack(agg_df1, min_obj_columns)
    IN [raised |-> FALSE, error |-> "",
        variable_values |->
            [v \in {problem.variables[i] : i \in DOMAIN problem.variables}
                |-> agg_df[Col(v)]],
        objective_values |-> objective_values(problem, agg_df),
        columns |-> DOMAIN agg_df]

InitEval ==
    /\ args \in
         [op : {"find_closest_points"},
          xs : SeqsUpTo(XPoints, MaxRows),
          discrete_df : SeqsUpTo(DiscreteRows, MaxRows),
          variable_symbols : {<<"x_1">>, <<"x_1", "x_2">>},
          objective_symbol : {"f_2"}]
         \cup
         [op : {"evaluate"},
          problem : EvalProblems,
          xs : SeqsUpTo(XPoints, MaxRows)]
    /\ history = << >>
    /\ ret = NoRet
    /\ IdleLocals
    /\ db = NoDb

\* the sort outcomes of the passes for the first n rows of xs
RECURSIVE SortOutcomeSeqs(_, _, _, _)
SortOutcomeSeqs(xs, discrete_df, variable_symbols, n) ==
    IF n = 0 THEN {<< >>}
    ELSE {Append(p, o) :
            p \in SortOutcomeSeqs(xs, discrete_df, variable_symbols, n - 1),
            o \in SortOutcomes(discrete_df, xs[n], variable_symbols)}

FindClosestPointsCall ==
    /\ args.op = "find_closest_points"
    /\ \E sort_outcome \in SortOutcomeSeqs(args.xs, args.discrete_df,
                                          args.variable_symbols,
                                          Len(args.xs)) :
        LET r == find_closest_points(args.xs, args.discrete_df,
                        args.variable_symbols, args.objective_symbol,
                        sort_outcome)
        IN ret' = [op |-> "find_closest_points", raised |-> r.raised,
                   error |-> r.error, results |-> r.results]
    /\ UNCHANGED <<history, args, pc, locals, solver_log, reader, memo, db>>

EvaluateCall ==
    /\ args.op = "evaluate"
    /\ LET r == polars_evaluate(args.problem, args.xs)
       IN ret' = [op |-> "evaluate", raised |-> r.raised,
                  error |-> r.error,
                  variable_values |-> r.variable_values,
                  objective_values |-> r.objective_values,
                  columns |-> r.columns]
    /\ UNCHANGED <<history, args, pc, locals, solver_log, reader, memo, db>>

NextEval ==
    \/ FindClosestPointsCall
    \/ EvaluateCall

SpecEval == InitEval /\ [][NextEval]_vars


\* ==================================================================== claims
\* ------------------------------------------------------ NIMBUS endpoints
\* api/routers/NIMBUS.py.  A request is handled in a database session of
\* its own (db.py, get_db): what was not committed when the handler ends,
\* normally or with an exception, is discarded.  A row of SolutionArchive
\* is [user, problem, objectives, saved, current, chosen], a row of
\* Preference [user, problem, kind]; objective vectors are lists.
Users == {1, 2}
ProblemIds == {1, 2, 3}

\* problem 1 belongs to user 1, problem 2 has no owner, problem 3 is not in
\* the database
StoredProblems ==
    [id \in {1, 2} |->
        [owner |-> IF id = 1 THEN Some(1) ELSE None, value |-> TestProblem]]

StartPoints == {<<1, 3>>}
SolverResultSet ==
    {[optimal_objectives |-> v] : v \in {<<1, 3>>, <<0, 0>>}}

NimbusOps == {"initialize", "iterate", "intermediate"}

\* changed: only the owner passes, also for a problem without an owner
AccessStatus_owner_only(session, user, problem_id) ==
    IF problem_id \notin DOMAIN session.problems THEN 404
    ELSE IF session.problems[problem_id].owner # Some(user) THEN 403
         ELSE 200

\* lines 115-119, 205-209, 335-339: 404 for a missing problem, 403 for a
\* problem whose owner is set and is not the user
AccessStatus(session, user, problem_id) ==
    IF problem_id \notin DOMAIN session.problems THEN 404
    ELSE IF /\ session.problems[problem_id].owner # Some(user)
            /\ session.problems[problem_id].owner # None
         THEN 403
         ELSE 200

\* the handler ends with an HTTPException or an unhandled exception (500)
HttpError(session, status, detail, touched, deduplicated) ==
    [db |-> session, status |-> status, detail |-> detail,
     response |-> None, touched |-> touched, deduplicated |-> deduplicated]

\* the rows of the user for the problem, in table order
UserSolutions(session, user, problem_id) ==
    SelectSeq(session.archive,
              LAMBDA row : row.problem = problem_id /\ row.user = user)

SolutionArchive(user, problem_id, objectives) ==
    [user |-> user, problem |-> problem_id, objectives |-> objectives,
     saved |-> FALSE, current |-> TRUE, chosen |-> FALSE]

\* list[i] = v on a Python list: None when i is not an index of the list
\* (IndexError: list assignment index out of range)
ListSetItem(list, i, v) ==
    IF 0 <= i /\ i < Len(list) THEN Some([list EXCEPT ![i + 1] = v])
    ELSE None

\* lines 160-168 (291-299, 425-433): lower_bounds = [], upper_bounds = []
\* and, for every objective i, lower_bounds[i] = ..., upper_bounds[i] = ...
RECURSIVE response_bounds(_, _, _, _)
response_bounds(problem, i, lower_bounds, upper_bounds) ==
    IF i >= Len(problem.objectives)
    THEN [raised |-> FALSE, lower_bounds |-> lower_bounds,
          upper_bounds |-> upper_bounds]
    ELSE LET o == problem.objectives[i + 1]
             lo == ListSetItem(lower_bounds, i,
                      IF o.maximize THEN problem.nadir[o.symbol]
                                    ELSE problem.ideal[o.symbol])
             up == ListSetItem(upper_bounds, i,
                      IF o.maximize THEN problem.ideal[o.symbol]
                                    ELSE problem.nadir[o.symbol])
         IN IF lo = None \/ up = None
            THEN [raised |-> TRUE, lower_bounds |-> << >>,
                  upper_bounds |-> << >>]
            ELSE response_bounds(problem, i + 1, The(lo), The(up))

NIMBUSResponse(problem, bounds, previous_preference, current_solutions, solutions) ==
    [objective_symbols |->
        [i \in DOMAIN problem.objectives |-> problem.objectives[i].symbol],
     is_maximized |->
        [i \in DOMAIN problem.objectives |-> problem.objectives[i].maximize],
     lower_bounds |-> bounds.lower_bounds,
     upper_bounds |-> bounds.upper_bounds,
     previous_preference |-> previous_preference,
     current_solutions |-> current_solutions,
     all_solutions |-> [i \in DOMAIN solutions |-> solutions[i].objectives]]

\* lines 94-182; start_result is what generate_starting_point returns
init_nimbus(session, user, init_request, start_result) ==
    LET problem_id == init_request.problem_id
        access == AccessStatus(session, user, problem_id)
    IN IF access = 404
       THEN HttpError(session, 404, "Problem not found.", << >>, None)
       ELSE IF access = 403
       THEN HttpError(session, 403,
                      "Unauthorized to access chosen problem.", << >>, None)
       ELSE
       LET problem == session.problems[problem_id].value
           solutions == UserSolutions(session, user, problem_id)
           committed ==
               IF solutions = << >>
               THEN [session EXCEPT !.archive =
                        Append(@, SolutionArchive(user, problem_id,
                                                  start_result))]
               ELSE session
           touched == IF solutions = << >>
                      THEN <<"query SolutionArchive", "add SolutionArchive",
                             "commit">>
                      ELSE <<"query SolutionArchive">>
           current_solution ==
               IF solutions = << >>
               THEN SolutionArchive(user, problem_id, start_result)
               ELSE IF \E i \in DOMAIN solutions : solutions[i].current
                    THEN solutions[CHOOSE i \in DOMAIN solutions :
                            /\ solutions[i].current
                            /\ \A j \in 1 .. i - 1 : ~solutions[j].current]
                    ELSE solutions[1]
           bounds == response_bounds(problem, 0, << >>, << >>)
       IN IF bounds.raised
          THEN HttpError(committed, 500, "IndexError", touched, None)
          ELSE [db |-> committed, status |-> 200, detail |-> "",
                response |-> Some(NIMBUSResponse(problem, bounds,
                                    current_solution.objectives,
                                    <<current_solution.objectives>>,
                                    solutions)),
                touched |-> touched, deduplicated |-> None]

\* numpy.allclose on two lists of finite numbers of the model
allclose(a, b) == a = b

\* lines 237-241 (367-371): the indices collected as duplicates; the test
\* compares results[i] with results[i]
RECURSIVE duplicate_indices_inner(_, _, _, _)
duplicate_indices_inner(results, i, j, acc) ==
    IF j >= Len(results) THEN acc
    ELSE duplicate_indices_inner(results, i, j + 1,
            IF allclose(results[i + 1].optimal_objectives,
                        results[i + 1].optimal_objectives)
            THEN Append(acc, j) ELSE acc)

RECURSIVE duplicate_indices(_, _, _)
duplicate_indices(results, i, acc) ==
    IF i >= Len(results) - 1 THEN acc
    ELSE duplicate_indices(results, i + 1,
                           duplicate_indices_inner(results, i, i + 1, acc))

\* sorted(indices, reverse=True)
RECURSIVE sorted_reverse(_)
sorted_reverse(indices) ==
    IF indices = << >> THEN << >>
    ELSE LET m == CHOOSE k \in DOMAIN indices :
                    \A l \in DOMAIN indices : indices[l] <= indices[k]
         IN <<indices[m]>>
              \o sorted_reverse(SubSeq(indices, 1, m - 1)
                                \o SubSeq(indices, m + 1, Len(indices)))

\* lines 243-244 (373-374): results.pop(index) for every collected index;
\* pop raises IndexError for an index that is not in the list any more
RECURSIVE pop_indices(_, _)
pop_indices(results, indices) ==
    IF indices = << >> THEN [raised |-> FALSE, results |-> results]
    ELSE IF Head(indices) >= Len(results)
         THEN [raised |-> TRUE, results |-> << >>]
         ELSE pop_indices(SubSeq(results, 1, Head(indices))
                            \o SubSeq(results, Head(indices) + 2,
                                      Len(results)),
                          Tail(indices))

\* lines 236-244 (366-374)
remove_duplicates(results) ==
    pop_indices(results, sorted_reverse(duplicate_indices(results, 0, << >>)))

\* lines 263-282 (397-416): for every result, look for it among the
\* previous solutions with allclose(res.optimal_objectives, prev.objectives).
\* The first argument is the dict itself (line 240 takes its values()), and
\* numpy cannot test a dict for finiteness or subtract a list from it: the
\* first comparison raises TypeError, before anything is flagged or added.
store_results(results, previous_solutions) ==
    [raised |-> results # << >> /\ previous_solutions # << >>]

\* lines 186-311 and, with kind "NIMBUS_intermediate", 316-445; results is
\* what solve_sub_problems (solve_intermediate_solutions) returns
iterate(session, user, request, results, kind) ==
    LET problem_id == request.problem_id
        access == AccessStatus(session, user, problem_id)
    IN IF access = 404
       THEN HttpError(session, 404, "Problem not found.", << >>, None)
       ELSE IF access = 403
       THEN HttpError(session, 403,
                      "Unauthorized to access chosen problem.", << >>, None)
       ELSE
       LET problem == session.problems[problem_id].value
           previous_solutions == UserSolutions(session, user, problem_id)
           dedup == remove_duplicates(results)
           committed ==
               [session EXCEPT
                    !.preferences =
                        Append(@, [user |-> user, problem |-> problem_id,
                                   kind |-> kind]),
                    !.archive =
                        [i \in DOMAIN @ |->
                            IF @[i].problem = problem_id /\ @[i].user = user
                            THEN [@[i] EXCEPT !.current = FALSE]
                            ELSE @[i]]]
           bounds == response_bounds(problem, 0, << >>, << >>)
           solutions == UserSolutions(committed, user, problem_id)
       IN IF previous_solutions = << >>
          THEN HttpError(session, 404, "Problem not found in the database.",
                         <<"query SolutionArchive">>, None)
          ELSE IF dedup.raised
          THEN HttpError(session, 500, "IndexError",
                         <<"query SolutionArchive">>, Some(dedup))
          ELSE IF store_results(dedup.results, previous_solutions).raised
          THEN HttpError(session, 500, "TypeError",
                         <<"query SolutionArchive", "add Preference",
                           "query SolutionArchive">>, Some(dedup))
          ELSE IF bounds.raised
          THEN HttpError(committed, 500, "IndexError",
                         <<"query SolutionArchive", "add Preference",
                           "query SolutionArchive", "commit",
                           "query SolutionArchive">>, Some(dedup))
          ELSE [db |-> committed, status |-> 200, detail |-> "",
                response |-> Some(NIMBUSResponse(problem, bounds, << >>,
                    [i \in DOMAIN SelectSeq(solutions,
                                            LAMBDA row : row.current) |->
                        SelectSeq(solutions,
                                  LAMBDA row : row.current)[i].objectives],
                    solutions)),
                touched |-> <<"query SolutionArchive", "add Preference",
                              "query SolutionArchive", "commit",
                              "query SolutionArchive">>,
                deduplicated |-> Some(dedup)]

InitNimbus ==
    /\ db = [problems |-> StoredProblems, archive |-> << >>,
             preferences |-> << >>]
    /\ history = << >>
    /\ args = NoArgs
    /\ ret = NoRet
    /\ IdleLocals

\* the solver runs only in a request that passed the access check and
\* found archived solutions (lines 205-221, 335-351)
SolverInputs(session, user, problem_id) ==
    IF /\ AccessStatus(session, user, problem_id) = 200
       /\ UserSolutions(session, user, problem_id) # << >>
    THEN SeqsUpTo(SolverResultSet, MaxResults)
    ELSE {<< >>}

InitNimbusCall ==
    /\ ret = NoRet
    /\ \E user \in Users, problem_id \in ProblemIds, start \in StartPoints :
        LET r == init_nimbus(db, user, [problem_id |-> problem_id], start)
        IN /\ db' = r.db
           /\ args' = [op |-> "initialize", user |-> user,
                       problem_id |-> problem_id, results |-> << >>]
           /\ ret' = [op |-> "initialize", status |-> r.status,
                      detail |-> r.detail, response |-> r.response,
                      touched |-> r.touched,
                      deduplicated |-> r.deduplicated]
           /\ UNCHANGED <<history, pc, locals, solver_log, reader, memo>>

IterateCall ==
    /\ ret = NoRet
    /\ Len(db.preferences) < MaxPrefs
    /\ \E user \in Users, problem_id \in ProblemIds :
       \E results \in SolverInputs(db, user, problem_id) :
        LET r == iterate(db, user, [problem_id |-> problem_id], results,
                         "NIMBUS")
        IN /\ db' = r.db
           /\ args' = [op |-> "iterate", user |-> user,
                       problem_id |-> problem_id, results |-> results]
           /\ ret' = [op |-> "iterate", status |-> r.status,
                      detail |-> r.detail, response |-> r.response,
                      touched |-> r.touched,
                      deduplicated |-> r.deduplicated]
           /\ UNCHANGED <<history, pc, locals, solver_log, reader, memo>>

IntermediateCall ==
    /\ ret = NoRet
    /\ Len(db.preferences) < MaxPrefs
    /\ \E user \in Users, problem_id \in ProblemIds :
       \E results \in SolverInputs(db, user, problem_id) :
        LET r == iterate(db, user, [problem_id |-> problem_id], results,
                         "NIMBUS_intermediate")
        IN /\ db' = r.db
           /\ args' = [op |-> "intermediate", user |-> user,
                       problem_id |-> problem_id, results |-> results]
           /\ ret' = [op |-> "intermediate", status |-> r.status,
                      detail |-> r.detail, response |-> r.response,
                      touched |-> r.touched,
                      deduplicated |-> r.deduplicated]
           /\ UNCHANGED <<history, pc, locals, solver_log, reader, memo>>

\* the response (or the error) has been sent; the next request can come
NimbusRespond ==
    /\ ret # NoRet
    /\ args' = NoArgs
    /\ ret' = NoRet
    /\ UNCHANGED <<db, history, pc, locals, solver_log, reader, memo>>

NextNimbus ==
    \/ InitNimbusCall
    \/ IterateCall
    \/ IntermediateCall
    \/ NimbusRespond

SpecNimbus == InitNimbus /\ [][NextNimbus]_vars

\* ------------------------------------------------------------------ claims
LastStepNo(h) == h[Len(h)].step_number

\* the 0-based positions of h whose entry has step number k
PositionsOf(h, k) == {i \in 0 .. Len(h) - 1 : h[i + 1].step_number = k}

\* h has an entry for every step number from 0 to its last entry's
AllStepsPresent(h) ==
    /\ h # << >>
    /\ \A k \in 0 .. LastStepNo(h) : PositionsOf(h, k) # {}

\* every entry with a step number s >= 1 comes after an entry with s - 1
Rooted(h) ==
    /\ h # << >>
    /\ \A i \in 0 .. Len(h) - 1 :
        h[i + 1].step_number >= 1 =>
            \E j \in 0 .. i - 1 : h[j + 1].step_number = h[i + 1].step_number - 1

\* C1: for a step number k that occurs in the history, step_back_index
\* returns the largest index whose entry has step number k; for the step
\* numbers [0,1,2,1,2] that is 3 for k = 1 and 4 for k = 2.
C1_StepBackLatestWins ==
    (ret.op = "step_back_index" /\ PositionsOf(history, args.step_number) # {})
    => /\ ~ret.raised
       /\ ret.index \in PositionsOf(history, args.step_number)
       /\ \A j \in PositionsOf(history, args.step_number) : j <= ret.index
       /\ (StepNos(history) = <<0, 1, 2, 1, 2>> /\ args.step_number = 1)
            => ret.index = 3
       /\ (StepNos(history) = <<0, 1, 2, 1, 2>> /\ args.step_number = 2)
            => ret.index = 4

C1_Witness ==
    /\ ret.op = "step_back_index"
    /\ StepNos(history) = <<0, 1, 2, 1, 2>>
    /\ args.step_number = 1
    /\ ret.index = 3

\* C2 as stated: on a history with every step number 0..N present,
\* get_current_path returns p of length N+1 with p[N] the last index and,
\* for k < N, p[k] the last index of the whole history with step number k.
C2_Original ==
    (ret.op = "get_current_path" /\ AllStepsPresent(history))
    => /\ ~ret.raised
       /\ Len(ret.path) = LastStepNo(history) + 1
       /\ ret.path[Len(ret.path)] = Len(history) - 1
       /\ \A k \in 0 .. LastStepNo(history) - 1 :
            /\ PositionsOf(history, k) # {}
            /\ ret.path[k + 1] \in PositionsOf(history, k)
            /\ \A j \in PositionsOf(history, k) : j <= ret.path[k + 1]

\* C2 amended: on a history with every step number 0..N present, a returned
\* path p has length N+1, p[N] is the last index and every p[k], k < N, is
\* the first index below p[k+1], walking down with Python's index rules
\* (negative indices after 0), whose entry has step number k.  On a history
\* where every entry with step number s >= 1 follows an entry with s - 1 the
\* path is always returned and p[k] is the largest index below p[k+1] with
\* step number k.  [0,1,2,1,2] gives [0,3,4], [0,1,0,2] gives [0,1,3] and
\* [0,1,2,1,3] gives [0,1,2,4].
C2_PathWalksDown ==
    (ret.op = "get_current_path" /\ AllStepsPresent(history))
    => /\ ~ret.raised =>
            /\ Len(ret.path) = LastStepNo(history) + 1
            /\ ret.path[Len(ret.path)] = Len(history) - 1
            /\ \A k \in 0 .. LastStepNo(history) - 1 :
                LET a == ret.path[k + 1]
                    b == ret.path[k + 2]
                IN /\ a < b
                   /\ -Len(history) <= a
                   /\ The(PyIndex(history, a)).step_number = k
                   /\ \A j \in a + 1 .. b - 1 :
                        The(PyIndex(history, j)).step_number # k
       /\ Rooted(history) =>
            /\ ~ret.raised
            /\ \A k \in 0 .. LastStepNo(history) - 1 :
                /\ ret.path[k + 1] \in PositionsOf(history, k)
                /\ \A j \in PositionsOf(history, k) :
                    j < ret.path[k + 2] => j <= ret.path[k + 1]
       /\ StepNos(history) = <<0, 1, 2, 1, 2>> => ret.path = <<0, 3, 4>>
       /\ StepNos(history) = <<0, 1, 0, 2>> => ret.path = <<0, 1, 3>>
       /\ StepNos(history) = <<0, 1, 2, 1, 3>> => ret.path = <<0, 1, 2, 4>>

C2_Witness ==
    /\ ret.op = "get_current_path"
    /\ StepNos(history) = <<0, 1, 0, 2>>
    /\ ret.path = <<0, 1, 3>>

\* C3: when the history has no entry at all for some step number below its
\* last entry's step number, get_current_path ends in an error and returns
\* no path.
C3_GapRaises ==
    (/\ ret.op = "get_current_path"
     /\ history # << >>
     /\ \E k \in 0 .. LastStepNo(history) - 1 : PositionsOf(history, k) = {})
    => /\ ret.raised
       /\ ret.error = "IndexError"
       /\ ret.path = << >>

C3_Witness ==
    /\ ret.op = "get_current_path"
    /\ StepNos(history) = <<0, 1, 3>>
    /\ ret.raised


\* step number of the last entry of the list navigator_all_steps was handed
LastPrevious == previous_responses[Len(previous_responses)]

\* C4: navigator_all_steps with steps_remaining = n >= 1 on a list whose
\* last entry has step number L returns exactly n responses with the step
\* numbers L+1, ..., L+n in that order; it raises only when a sub-solve of a
\* step failed, and a call that raises hands no list to the caller.
C4_AllStepsCount ==
    /\ (pc = "returned" /\ args.steps_remaining >= 1) =>
            /\ ~ret.raised
            /\ Len(ret.responses) = args.steps_remaining
            /\ \A j \in DOMAIN ret.responses :
                ret.responses[j].step_number = LastPrevious.step_number + j
    /\ pc = "raised" =>
            /\ ret.raised
            /\ ret.responses = << >>
            /\ ret.message[1] = "eps"
    /\ pc \in {"loop", "stamp"} => ret = NoRet

C4_Witness ==
    /\ pc = "returned"
    /\ args.steps_remaining = 3
    /\ LastPrevious.step_number = 0
    /\ StepNos(ret.responses) = <<1, 2, 3>>

AsfSolves == {i \in DOMAIN solver_log : solver_log[i].solve = "asf"}

\* C5: within one navigator_all_steps call the scalarized problem is solved
\* at most once, in the first pass and from the navigation point of the last
\* entry handed in; every later pass gets the first pass's reachable
\* solution, so all responses of the call carry the same reachable_solution.
C5_ProjectorOnce ==
    pc # "idle" =>
        /\ Cardinality(AsfSolves) <= 1
        /\ \A i \in AsfSolves :
            /\ solver_log[i].iteration = 1
            /\ solver_log[i].nav_point = LastPrevious.navigation_point
        /\ (responses # << >> \/ pc = "stamp") => Cardinality(AsfSolves) = 1
        /\ \A j \in DOMAIN responses :
            responses[j].reachable_solution = responses[1].reachable_solution
        /\ (pc = "stamp" /\ responses # << >>) =>
            The(response).reachable_solution = responses[1].reachable_solution
        /\ (pc = "loop" /\ responses # << >>) =>
            /\ ~first_iteration
            /\ reachable_solution = responses[1].reachable_solution

C5_Witness ==
    /\ pc = "returned"
    /\ Len(ret.responses) = 3
    /\ Cardinality(AsfSolves) = 1
    /\ Len(solver_log) = 7

\* Every Response object that exists: the history's, the ones collected by
\* the running call and the one navigator_step has just returned.  An
\* object keeps its position for as long as it exists.
Objects ==
    history \o responses \o
        (IF pc = "stamp" THEN <<The(response)>> ELSE << >>)

SameButReferencePoint(a, b) ==
    /\ a.step_number = b.step_number
    /\ a.distance_to_front = b.distance_to_front
    /\ a.navigation_point = b.navigation_point
    /\ a.reachable_solution = b.reachable_solution
    /\ a.reachable_bounds = b.reachable_bounds

C7_HistoryUnchanged ==
    [][/\ pc # "idle" =>
            /\ previous_responses # << >>
            /\ Len(previous_responses) <= Len(history)
            /\ previous_responses =
                    SubSeq(history, 1, Len(previous_responses))
       /\ pc \in {"loop", "stamp"} =>
            /\ history' = history
            /\ previous_responses' = previous_responses
       /\ ret'.op \in {"step_back_index", "get_current_path"} =>
            history' = history]_vars

C7_Witness ==
    /\ pc = "returned"
    /\ Len(ret.responses) = 2
    /\ previous_responses = history
    /\ Len(history) = 2

BothOrNeither ==
    (args.reference_point = None) = (args.reachable_solution = None)

\* C8: navigator_step given both reference_point and reachable_solution, or
\* neither, raises before any solver is invoked and returns no Response;
\* given exactly one of them it never raises this error.
C8_PreferenceInputChecked ==
    ret.op = "navigator_step" =>
        /\ BothOrNeither =>
            /\ ret.raised
            /\ ret.message \in {<<"either">>, <<"only_one">>}
            /\ ret.solves = << >>
            /\ ret.response = None
        /\ ~BothOrNeither => ret.message \notin {<<"either">>, <<"only_one">>}

C8_Witness ==
    /\ ret.op = "navigator_step"
    /\ args.reference_point # None
    /\ args.reachable_solution # None
    /\ ret.raised
    /\ ret.message = <<"only_one">>

\* C9: navigator_step called with a reference point raises, and returns no
\* Response, whenever the scalarization sub-solve reports non-success.
C9_FailedProjectionRaises ==
    (/\ ret.op = "navigator_step"
     /\ args.reference_point # None
     /\ args.reachable_solution = None
     /\ ~ret.asf.success)
    => /\ ret.raised
       /\ ret.response = None

SubSolveFails(i) ==
    ~EpsSolver(args.problem,
               create_epsilon_constraints(args.problem,
                   args.problem.objectives[i].symbol,
                   const_bounds(args.problem, args.nav_point)),
               ret.choice[args.problem.objectives[i].symbol]).success

FailingObjectives == {i \in DOMAIN args.problem.objectives : SubSolveFails(i)}

\* C10: solve_reachable_bounds raises, with the solver's message, and
\* returns no bounds at all when the sub-solve of any objective reports
\* non-success; it returns (lower, upper) only when every sub-solve
\* succeeded, both keyed by exactly the problem's objective symbols.
C10_BoundsAllOrNothing ==
    ret.op = "solve_reachable_bounds" =>
        /\ FailingObjectives # {} =>
            /\ ret.raised
            /\ ret.bounds = None
            /\ LET i == CHOOSE m \in FailingObjectives :
                            \A x \in FailingObjectives : m <= x
               IN /\ ret.message[2] = args.problem.objectives[i].symbol
                  /\ ret.message[3] \in
                        {ret.choice[args.problem.objectives[i].symbol],
                         "infeasible"}
                  /\ ret.message[3] # "optimal"
        /\ FailingObjectives = {} =>
            /\ ~ret.raised
            /\ ret.bounds # None
            /\ DOMAIN The(ret.bounds).lower_bounds = Symbols(args.problem)
            /\ DOMAIN The(ret.bounds).upper_bounds = Symbols(args.problem)
            /\ ret.solves = <<"f1", "f2">>

C10_Witness ==
    /\ ret.op = "solve_reachable_bounds"
    /\ ret.raised
    /\ ret.solves = <<"f1", "f2">>
    /\ ret.message = <<"eps", "f2", "maxiter">>
    /\ ret.bounds = None


\* C11: calculate_navigation_point raises and returns no navigation point
\* for every number of steps remaining r <= 0; consequently navigator_step
\* called with steps_remaining <= 0 returns no Response.
C11_NoStepsRemainingRaises ==
    /\ (ret.op = "calculate_navigation_point" /\ args.steps_remaining <= 0)
        => /\ ret.raised
           /\ ret.value = None
    /\ (ret.op = "navigator_step" /\ args.steps_remaining <= 0)
        => /\ ret.raised
           /\ ret.response = None

C11_Witness ==
    /\ ret.op = "navigator_step"
    /\ args.steps_remaining = 0
    /\ args.reference_point # None
    /\ args.reachable_solution = None
    /\ ret.asf.success
    /\ ret.raised
    /\ ret.message = <<"steps_remaining">>
    /\ ret.response = None

\* C12: for r > 0 calculate_navigation_point returns z' with
\* r * z'[s] = (r - 1) * z[s] + f[s] for every objective symbol s, keyed by
\* exactly the problem's objective symbols, and for r = 1 it returns f.
C12_NavigationPointRecurrence ==
    (ret.op = "calculate_navigation_point" /\ args.steps_remaining > 0) =>
        /\ ~ret.raised
        /\ ret.value # None
        /\ DOMAIN The(ret.value) = Symbols(args.problem)
        /\ \A s \in Symbols(args.problem) :
                RMul(R(args.steps_remaining), The(ret.value)[s])
                    = RAdd(RMul(R(args.steps_remaining - 1),
                                args.nav_point[s]),
                           ret.f[s])
        /\ args.steps_remaining = 1 => The(ret.value) = ret.f

C12_Witness ==
    /\ ret.op = "calculate_navigation_point"
    /\ args.steps_remaining = 3
    /\ args.nav_point = Pt(2, 0)
    /\ ret.f = Pt(1, 3)
    /\ ret.value = Some([f1 |-> <<5, 3>>, f2 |-> R(1)])

\* C13: the initial response created by navigator_init has step_number 0,
\* navigation_point equal to the problem's nadir point, distance_to_front
\* 0, reachable_solution none and reference_point none.
C13_InitialResponse ==
    /\ (ret.op = "navigator_init" /\ ~ret.raised) =>
            /\ ret.response # None
            /\ history = <<The(ret.response)>>
    /\ history # << >> =>
            /\ history[1].step_number = 0
            /\ history[1].navigation_point = TestProblem.nadir
            /\ history[1].distance_to_front = R(0)
            /\ history[1].reachable_solution = None
            /\ history[1].reference_point = None

C13_Witness ==
    /\ ret.op = "navigator_init"
    /\ ~ret.raised
    /\ history = <<The(ret.response)>>
    /\ history[1].navigation_point = Pt(2, 0)
    /\ history[1].step_number = 0

\* p is in no objective worse than q: not larger where the objective is
\* minimized, not smaller where it is maximized
NoWorse(problem, p, q) ==
    \A i \in DOMAIN problem.objectives :
        LET s == problem.objectives[i].symbol
        IN IF problem.objectives[i].maximize THEN RLeq(q[s], p[s])
                                             ELSE RLeq(p[s], q[s])

\* C14: the reachable solution used by a step is never worse than the
\* navigation point it was projected from: in every Response navigator_step
\* returns for a reference point, reachable_solution is in every objective
\* no worse than the previous navigation point.
C14_ProjectionNeverWorse ==
    (/\ ret.op = "navigator_step"
     /\ ~ret.raised
     /\ args.reference_point # None)
    => NoWorse(args.problem, The(The(ret.response).reachable_solution),
               args.nav_point)

\* every reachable solution of the run is a point the solver found as an
\* optimum of the problem
TrueOptima ==
    \A i \in DOMAIN Objects :
        \/ Objects[i].reachable_solution = None
        \/ The(Objects[i].reachable_solution) \in TestProblem.feasible

\* C15: in every Response produced by navigator_init or navigator_step
\* during a navigation run in which the solver returns true optima,
\* lower_bounds[s] <= upper_bounds[s] holds for every objective s.
C15_BoundsOrdered ==
    TrueOptima =>
        \A i \in DOMAIN Objects : \A s \in Symbols(TestProblem) :
            RLeq(Objects[i].reachable_bounds.lower_bounds[s],
                 Objects[i].reachable_bounds.upper_bounds[s])

C15_Witness ==
    /\ TrueOptima
    /\ Len(history) >= 3
    /\ history[3].step_number = 2
    /\ history[3].reachable_solution # None
    /\ RLt(history[3].reachable_bounds.lower_bounds["f2"],
           history[3].reachable_bounds.upper_bounds["f2"])
    /\ RLt(history[3].reachable_bounds.lower_bounds["f1"],
           history[3].reachable_bounds.upper_bounds["f1"])

\* the feasible points that are, in every objective other than number i, no
\* worse than the navigation point n
WithinNavigationPoint(problem, i, n) ==
    {p \in problem.feasible :
        \A j \in DOMAIN problem.objectives \ {i} :
            LET s == problem.objectives[j].symbol
            IN IF problem.objectives[j].maximize THEN RLeq(n[s], p[s])
                                                 ELSE RLeq(p[s], n[s])}

\* v is the best value of objective number i among the points of F
BestValue(problem, i, F, v) ==
    LET s == problem.objectives[i].symbol
    IN /\ \E p \in F : p[s] = v
       /\ \A p \in F : IF problem.objectives[i].maximize THEN RLeq(p[s], v)
                                                          ELSE RLeq(v, p[s])

\* C16: for each objective s, solve_reachable_bounds pairs the sub-solve's
\* optimal value v of s with the navigation point value n of s: minimized
\* objective, lower = v and upper = n; maximized objective, lower = n and
\* upper = v; and the constraint bounds handed to the sub-solves are the
\* navigation point values with the sign flipped exactly for the maximized
\* objectives.
C16_BoundsPairing ==
    (ret.op = "solve_reachable_bounds" /\ ~ret.raised) =>
        \A i \in DOMAIN args.problem.objectives :
            LET o == args.problem.objectives[i]
                n == args.nav_point[o.symbol]
                lower == The(ret.bounds).lower_bounds[o.symbol]
                upper == The(ret.bounds).upper_bounds[o.symbol]
                F == WithinNavigationPoint(args.problem, i, args.nav_point)
            IN /\ const_bounds(args.problem, args.nav_point)[o.symbol]
                    = IF o.maximize THEN RNeg(n) ELSE n
               /\ IF o.maximize
                  THEN lower = n /\ BestValue(args.problem, i, F, upper)
                  ELSE upper = n /\ BestValue(args.problem, i, F, lower)

C16_Witness ==
    /\ ret.op = "solve_reachable_bounds"
    /\ ~ret.raised
    /\ args.nav_point = Pt(1, 2)
    /\ The(ret.bounds).lower_bounds = Pt(1, 2)
    /\ The(ret.bounds).upper_bounds = Pt(1, 3)

NadirUndefined(problem) ==
    \E s \in Symbols(problem) : problem.nadir[s] = Undefined

IdealUndefined(problem) ==
    \E s \in Symbols(problem) : problem.ideal[s] = Undefined

\* C17: calculate_distance_to_front raises an error and returns no value
\* whenever the problem's nadir point is undefined for at least one
\* objective.
C17_UndefinedNadirRaises ==
    (/\ ret.op = "calculate_distance_to_front"
     /\ NadirUndefined(args.problem))
    => /\ ret.raised
       /\ ret.message = <<"nadir">>
       /\ ret.value = None

C17_Witness ==
    /\ ret.op = "calculate_distance_to_front"
    /\ args.problem.nadir["f1"] # Undefined
    /\ args.problem.nadir["f2"] = Undefined
    /\ ret.raised
    /\ ret.value = None

\* C18 as stated: solve_reachable_bounds raises an error and returns no
\* bounds when the problem's ideal or nadir point is missing a value for
\* some objective, even if the navigation point passed in is fully
\* populated.
C18_Original ==
    (/\ ret.op = "solve_reachable_bounds"
     /\ NadirUndefined(args.problem) \/ IdealUndefined(args.problem))
    => /\ ret.raised
       /\ ret.bounds = None

\* C18: solve_reachable_bounds does not look at the problem's ideal or
\* nadir point: given a fully populated navigation point and a problem
\* whose ideal or nadir point is missing a value, it raises exactly when a
\* sub-solve reports non-success and otherwise returns bounds for every
\* objective; a missing nadir value is reported by
\* calculate_distance_to_front, in navigator_step only after the bounds of
\* every objective have been solved.
C18_BoundsIgnoreIdealNadir ==
    /\ (/\ ret.op = "solve_reachable_bounds"
        /\ NadirUndefined(args.problem) \/ IdealUndefined(args.problem))
       => /\ ret.raised <=> FailingObjectives # {}
          /\ ret.raised => ret.message[1] = "eps" /\ ret.bounds = None
          /\ ~ret.raised =>
                /\ ret.bounds # None
                /\ DOMAIN The(ret.bounds).lower_bounds
                        = Symbols(args.problem)
                /\ DOMAIN The(ret.bounds).upper_bounds
                        = Symbols(args.problem)
    /\ (/\ ret.op = "navigator_step"
        /\ ret.raised
        /\ ret.message \notin {<<"either">>, <<"only_one">>,
                                <<"steps_remaining">>})
       => \/ ret.message[1] = "eps"
          \/ /\ ret.message = <<"nadir">>
             /\ NadirUndefined(args.problem)
             /\ Len(ret.solves) >= 2
             /\ SubSeq(ret.solves, Len(ret.solves) - 1, Len(ret.solves))
                    = <<"f1", "f2">>

C18_Witness ==
    /\ ret.op = "solve_reachable_bounds"
    /\ NadirUndefined(args.problem)
    /\ args.nav_point = Pt(2, 0)
    /\ ~ret.raised
    /\ The(ret.bounds).lower_bounds = Pt(0, 0)
    /\ The(ret.bounds).upper_bounds = Pt(2, 4)

\* C19: calculate_distance_to_front called with the navigation point equal
\* to the nadir point, and a reachable vector different from the nadir
\* point, returns 0.
C19_DistanceAtNadirIsZero ==
    (/\ ret.op = "calculate_distance_to_front"
     /\ ~NadirUndefined(args.problem)
     /\ args.nav_point = args.problem.nadir
     /\ ret.f # args.problem.nadir)
    => /\ ~ret.raised
       /\ ret.value = Some(R(0))

C19_Witness ==
    /\ ret.op = "calculate_distance_to_front"
    /\ args.problem = TestProblem
    /\ args.nav_point = Pt(2, 0)
    /\ ret.f = Pt(1, 3)
    /\ ret.value = Some(R(0))

\* the history as it stood when it had n entries
Prefix(n) == SubSeq(history, 1, n)

\* C20: a reader executing get_current_path or step_back_index while a
\* single writer appends to the same history obtains a result that is
\* correct for the history as it stood at some single moment during the
\* call (some prefix of the final history).
C20_ReaderSeesOneSnapshot ==
    reader.pc = "done" =>
        \E n \in reader.start_len .. reader.end_len :
            IF reader.op = "get_current_path"
            THEN /\ reader.raised = get_current_path(Prefix(n)).raised
                 /\ reader.path = get_current_path(Prefix(n)).path
            ELSE /\ reader.raised
                    = step_back_index(Prefix(n), reader.step_number).raised
                 /\ reader.index
                    = step_back_index(Prefix(n), reader.step_number).index

\* C21: the bounds returned by solve_reachable_bounds do not depend on the
\* order in which the per-objective sub-solves are executed: taken in any
\* order they give the (lower, upper) mappings of the loop as written, and
\* no bounds exactly when the loop as written gives none.
C21_BoundsOrderIndependent ==
    ret.op = "solve_reachable_bounds_in_order" =>
        LET r == solve_reachable_bounds(args.problem, args.nav_point,
                                        ret.choice)
        IN /\ ret.raised = r.raised
           /\ ret.bounds = r.bounds

C21_Witness ==
    /\ ret.op = "solve_reachable_bounds_in_order"
    /\ ret.order = <<2, 1>>
    /\ ret.solves = <<"f2", "f1">>
    /\ args.nav_point = Pt(2, 0)
    /\ ret.bounds = Some([lower_bounds |-> Pt(0, 0),
                          upper_bounds |-> Pt(2, 4)])

\* the call that has just returned is of the function noted, with the
\* same arguments and the same solver behaviour
SameCallAsNoted ==
    /\ memo # None
    /\ ret.op \in {"navigator_step", "solve_reachable_bounds"}
    /\ ret.op = The(memo).op
    /\ ret.choice = The(memo).choice
    /\ ret.op = "navigator_step" => ret.asf = The(memo).asf

SqDist(a, b, S) ==
    LET RECURSIVE Sum(_)
        Sum(T) == IF T = {} THEN 0
                  ELSE LET c == CHOOSE x \in T : TRUE
                       IN (a[c] - b[c]) * (a[c] - b[c]) + Sum(T \ {c})
    IN Sum(S)

SymbolSet(symbols) == {symbols[i] : i \in DOMAIN symbols}

\* C23: find_closest_points returns exactly one value per row of xs, in
\* the row order of xs, and the i-th value is the objective value of a row
\* of discrete_df whose Euclidean distance to row i of xs over the given
\* variable symbols is minimal among all rows of discrete_df (for a
\* discrete_df that has a row).
C23_ClosestPoints ==
    (ret.op = "find_closest_points" /\ args.discrete_df # << >>) =>
        /\ ~ret.raised
        /\ Len(ret.results) = Len(args.xs)
        /\ \A i \in 1 .. Len(args.xs) :
            \E j \in 1 .. Len(args.discrete_df) :
                /\ ret.results[i] = args.discrete_df[j][args.objective_symbol]
                /\ \A k \in 1 .. Len(args.discrete_df) :
                        SqDist(args.discrete_df[j], args.xs[i],
                               SymbolSet(args.variable_symbols))
                        <= SqDist(args.discrete_df[k], args.xs[i],
                                  SymbolSet(args.variable_symbols))

C23_Witness ==
    /\ ret.op = "find_closest_points"
    /\ args.variable_symbols = <<"x_1", "x_2">>
    /\ args.xs = <<[x_1 |-> 0, x_2 |-> 2], [x_1 |-> 1, x_2 |-> 0]>>
    /\ args.discrete_df = <<[x_1 |-> 0, x_2 |-> 0, f_2 |-> 42],
                            [x_1 |-> 0, x_2 |-> 2, f_2 |-> 69]>>
    /\ ret.results = <<69, 42>>

\* C24: GenericEvaluator.evaluate returns, for every objective symbol of
\* the problem, a list with one value per input row equal to the
\* objective's function evaluated on that row in the objective's original
\* orientation, also for maximized objectives; the sign-flipped
\* minimization form exists only under the name <symbol>_min.
C24_ObjectivesInOriginalOrientation ==
    (/\ ret.op = "evaluate"
     /\ \A i \in DOMAIN args.problem.objectives :
            args.problem.objectives[i].func # None)
    =>
        /\ ~ret.raised
        /\ DOMAIN ret.objective_values
                = {args.problem.objectives[i].symbol :
                        i \in DOMAIN args.problem.objectives}
        /\ \A i \in DOMAIN args.problem.objectives :
            LET o == args.problem.objectives[i]
            IN /\ Len(ret.objective_values[o.symbol]) = Len(args.xs)
               /\ \A r \in 1 .. Len(args.xs) :
                    ret.objective_values[o.symbol][r]
                        = EvalFunc(The(o.func), args.xs[r])
               /\ MinCol(o.symbol) \in ret.columns
               /\ MinCol(o.symbol) \notin
                    {Col(s) : s \in DOMAIN ret.objective_values}

C24_Witness ==
    /\ ret.op = "evaluate"
    /\ ~ret.raised
    /\ args.problem.objectives[2].maximize
    /\ ~args.problem.objectives[1].maximize
    /\ args.xs = <<[x_1 |-> 1, x_2 |-> 0], [x_1 |-> 0, x_2 |-> 2]>>
    /\ ret.objective_values["f_2"] = <<-3, -3>>
    /\ ret.objective_values["f_1"] = <<1, 2>>

\* C25: navigator_all_steps called with steps_remaining <= 0 raises an
\* error and returns no list.
C25_NonPositiveStepsRaises ==
    (/\ args.op = "navigator_all_steps"
     /\ args.steps_remaining <= 0
     /\ pc \in {"returned", "raised"})
    => /\ pc = "raised"
       /\ ret.raised

\* navigation point the j-th step of the running call started from
StartOf(j) ==
    IF j = 1 THEN LastPrevious.navigation_point
    ELSE responses[j - 1].navigation_point

\* C26: in navigator_all_steps with n >= 1 the j-th step is computed with
\* n - j + 1 steps remaining and from the navigation point of the response
\* generated before it (of the last entry handed in for j = 1), so the
\* last returned response's navigation point is the reachable solution.
C26_StepsChained ==
    (args.op = "navigator_all_steps" /\ args.steps_remaining >= 1) =>
        LET n == args.steps_remaining
        IN /\ pc \in {"loop", "stamp"} =>
                /\ steps_remaining = n - Len(responses)
                /\ nav_point = StartOf(Len(responses) + 1)
           /\ pc = "stamp" =>
                The(response).navigation_point
                    = The(calculate_navigation_point(TestProblem,
                            StartOf(Len(responses) + 1),
                            The(The(response).reachable_solution),
                            n - Len(responses)).value)
           /\ pc \in {"loop", "stamp", "returned"} =>
                \A j \in DOMAIN responses :
                    responses[j].navigation_point
                        = The(calculate_navigation_point(TestProblem,
                                StartOf(j),
                                The(responses[j].reachable_solution),
                                n - j + 1).value)
           /\ pc = "returned" =>
                /\ Len(ret.responses) = n
                /\ ret.responses[n].navigation_point
                        = The(ret.responses[n].reachable_solution)

C26_Witness ==
    /\ pc = "returned"
    /\ args.steps_remaining = 3
    /\ LastPrevious.navigation_point = Pt(2, 0)
    /\ ret.responses[1].navigation_point = [f1 |-> <<5, 3>>, f2 |-> R(1)]
    /\ ret.responses[2].navigation_point = [f1 |-> <<4, 3>>, f2 |-> R(2)]
    /\ ret.responses[3].navigation_point = Pt(1, 3)
    /\ ret.responses[3].reachable_solution = Some(Pt(1, 3))

\* every reachable solution of the run was returned by a successful solve
\* under the constraints of lines 205-211 and differs from the nadir point,
\* and the running call's is no worse than the navigation point it was
\* projected from
DominatingProjections ==
    /\ \A i \in DOMAIN Objects :
        \/ Objects[i].reachable_solution = None
        \/ /\ The(Objects[i].reachable_solution) \in TestProblem.feasible
           /\ The(Objects[i].reachable_solution) # TestProblem.nadir
    /\ \A j \in DOMAIN responses :
        NoWorse(TestProblem, The(responses[j].reachable_solution),
                LastPrevious.navigation_point)
    /\ pc = "stamp" =>
        NoWorse(TestProblem, The(The(response).reachable_solution),
                LastPrevious.navigation_point)

IsNan(d) == d = <<0, 0>>
IsInf(d) == d = <<1, 0>>

\* a <= b for two distances as floating-point numbers compare
DistLeq(a, b) ==
    /\ ~IsNan(a)
    /\ ~IsNan(b)
    /\ \/ IsInf(b)
       \/ ~IsInf(a) /\ RLeq(a, b)

\* C27: every Response of a run that starts with navigator_init and goes
\* on with navigator_all_steps, in which each reachable solution dominates
\* the navigation point it was projected from and differs from the nadir
\* point, has 0 <= distance_to_front <= 100 (the model holds the square of
\* the percentage, so the bound is 10000).
C27_DistanceInRange ==
    DominatingProjections =>
        \A i \in DOMAIN Objects :
            /\ DistLeq(R(0), Objects[i].distance_to_front)
            /\ DistLeq(Objects[i].distance_to_front, R(10000))

C27_Witness ==
    /\ DominatingProjections
    /\ Len(history) = 4
    /\ history[1].distance_to_front = R(0)
    /\ history[2].distance_to_front = <<10000, 9>>
    /\ history[3].distance_to_front = <<40000, 9>>
    /\ history[4].distance_to_front = R(10000)
    /\ history[4].reachable_solution = Some(Pt(1, 3))

\* C28: within one navigator_all_steps call with n steps, starting
\* navigation point z0 and reachable solution f, the k-th response of the
\* call has a navigation point z_k with n * z_k[s] = (n - k) * z0[s]
\* + k * f[s] for every objective symbol s.
C28_EqualIncrements ==
    (/\ args.op = "navigator_all_steps"
     /\ args.steps_remaining >= 1
     /\ pc \in {"loop", "stamp", "returned"})
    => LET n == args.steps_remaining
           z0 == LastPrevious.navigation_point
       IN \A k \in DOMAIN responses : \A s \in Symbols(TestProblem) :
            LET f == The(responses[1].reachable_solution)
            IN RMul(R(n), responses[k].navigation_point[s])
                = RAdd(RMul(R(n - k), z0[s]), RMul(R(k), f[s]))

C28_Witness ==
    /\ pc = "returned"
    /\ args.steps_remaining = 3
    /\ LastPrevious.navigation_point = Pt(2, 0)
    /\ ret.responses[1].reachable_solution = Some(Pt(2, 4))
    /\ ret.responses[1].navigation_point = [f1 |-> R(2), f2 |-> <<4, 3>>]
    /\ ret.responses[2].navigation_point = [f1 |-> R(2), f2 |-> <<8, 3>>]
    /\ ret.responses[3].navigation_point = Pt(2, 4)

\* the running call has produced a response, its reachable solution is in
\* no objective worse than the navigation point the call started from, and
\* that point is in no objective worse than the nadir point
CallDominates ==
    /\ args.op = "navigator_all_steps"
    /\ pc \in {"loop", "stamp", "returned"}
    /\ responses # << >>
    /\ NoWorse(TestProblem, The(responses[1].reachable_solution),
               LastPrevious.navigation_point)
    /\ NoWorse(TestProblem, LastPrevious.navigation_point,
               TestProblem.nadir)

DistanceClimbsToFront ==
    /\ \A j \in 1 .. Len(responses) - 1 :
        DistLeq(responses[j].distance_to_front,
                responses[j + 1].distance_to_front)
    /\ pc = "returned" =>
        ret.responses[Len(ret.responses)].distance_to_front = R(10000)

\* C29 as stated: within one navigator_all_steps call whose reachable
\* solution dominates the starting navigation point, which dominates the
\* nadir point, distance_to_front never decreases from one returned
\* response to the next and the last one has distance_to_front 100.
C29_Original == CallDominates => DistanceClimbsToFront

\* C29: the same for a call whose reachable solution, besides, is not the
\* nadir point itself.
C29_DistanceNonDecreasing ==
    (/\ CallDominates
     /\ The(responses[1].reachable_solution) # TestProblem.nadir)
    => DistanceClimbsToFront

C29_Witness ==
    /\ pc = "returned"
    /\ CallDominates
    /\ LastPrevious.navigation_point = TestProblem.nadir
    /\ Len(ret.responses) = 3
    /\ ret.responses[1].reachable_solution = Some(Pt(2, 4))
    /\ ret.responses[1].distance_to_front = <<10000, 9>>
    /\ ret.responses[2].distance_to_front = <<40000, 9>>
    /\ ret.responses[3].distance_to_front = R(10000)

\* C30: a step generated by navigator_step whose reachable point is in no
\* objective worse than the input navigation point has a new navigation
\* point that is in every objective no worse than the input navigation
\* point and no better than the reachable point.
C30_NeverBackwards ==
    (/\ ret.op = "navigator_step"
     /\ ~ret.raised
     /\ NoWorse(args.problem, The(The(ret.response).reachable_solution),
                args.nav_point))
    => /\ NoWorse(args.problem, The(ret.response).navigation_point,
                  args.nav_point)
       /\ NoWorse(args.problem, The(The(ret.response).reachable_solution),
                  The(ret.response).navigation_point)

C30_Witness ==
    /\ ret.op = "navigator_step"
    /\ ~ret.raised
    /\ args.steps_remaining = 2
    /\ args.nav_point = Pt(1, 2)
    /\ The(ret.response).reachable_solution = Some(Pt(1, 3))
    /\ The(ret.response).navigation_point = [f1 |-> R(1), f2 |-> <<5, 2>>]

\* positions Len(history), ... of the first j responses once appended
NewPositions(j) == [m \in 1 .. j |-> Len(history) + m - 1]

\* C31: every history built by the protocol starts with step number 0 and
\* has no step-number gap, get_current_path does not fail on it, and the
\* path it returns is the ancestry chain of the last entry: the path of
\* the initial history is <<0>>, and the path up to each response a call
\* returns is the path of the list the call was handed, which ends at the
\* entry the response descends from, followed by the call's responses up
\* to that one.
C31_PathIsAncestry ==
    /\ history # << >> =>
        /\ history[1].step_number = 0
        /\ AllStepsPresent(history)
        /\ Rooted(history)
        /\ ~get_current_path(history).raised
    /\ Len(history) = 1 => get_current_path(history).path = <<0>>
    /\ ret.op = "get_current_path" =>
        /\ ~ret.raised
        /\ \A k \in DOMAIN ret.path :
            /\ ret.path[k] \in 0 .. Len(history) - 1
            /\ history[ret.path[k] + 1].step_number = k - 1
    /\ (pc = "returned" /\ ~ret.raised) =>
        /\ previous_responses = SubSeq(history, 1, Len(previous_responses))
        /\ \A j \in 1 .. Len(ret.responses) :
            LET h2 == history \o SubSeq(ret.responses, 1, j)
            IN /\ ~get_current_path(h2).raised
               /\ get_current_path(h2).path
                    = get_current_path(previous_responses).path
                        \o NewPositions(j)

C31_Witness ==
    /\ ret.op = "get_current_path"
    /\ StepNos(history) = <<0, 1, 2, 1, 3>>
    /\ ret.path = <<0, 1, 2, 4>>
    /\ history[4].navigation_point # history[2].navigation_point

\* C32 as stated: every element of a path get_current_path returns for a
\* history h, protocol-built or not, is a position between 0 and
\* len(h) - 1, the elements are strictly increasing, and the entry at the
\* k-th element has step number k.
C32_Original ==
    (ret.op = "get_current_path" /\ ~ret.raised) =>
        /\ \A k \in DOMAIN ret.path :
            /\ 0 <= ret.path[k]
            /\ ret.path[k] <= Len(history) - 1
            /\ history[ret.path[k] + 1].step_number = k - 1
        /\ \A k \in 1 .. Len(ret.path) - 1 : ret.path[k] < ret.path[k + 1]

\* C32: every element of a returned path is an index Python accepts for
\* h, between -len(h) and len(h) - 1; the elements are strictly
\* increasing, the entry the k-th element indexes has step number k, and
\* no element is negative when every entry of h with a step number s >= 1
\* comes after an entry with step number s - 1.
C32_PathIndexesSteps ==
    (ret.op = "get_current_path" /\ ~ret.raised) =>
        /\ \A k \in DOMAIN ret.path :
            /\ -Len(history) <= ret.path[k]
            /\ ret.path[k] <= Len(history) - 1
            /\ The(PyIndex(history, ret.path[k])).step_number = k - 1
        /\ \A k \in 1 .. Len(ret.path) - 1 : ret.path[k] < ret.path[k + 1]
        /\ Rooted(history) => \A k \in DOMAIN ret.path : 0 <= ret.path[k]

C32_Witness ==
    /\ ret.op = "get_current_path"
    /\ ~ret.raised
    /\ StepNos(history) = <<0, 1, 2, 1, 2>>
    /\ ret.path = <<0, 3, 4>>

\* C34: step_back_index raises, and returns no index, when no entry of the
\* history has the requested step number; so it does for the empty
\* history.
C34_MissingStepRaises ==
    (/\ ret.op = "step_back_index"
     /\ PositionsOf(history, args.step_number) = {})
    => /\ ret.raised
       /\ ret.error = "IndexError"

C34_Witness ==
    /\ ret.op = "step_back_index"
    /\ StepNos(history) = <<0, 1, 3, 1>>
    /\ args.step_number = 2
    /\ ret.raised

\* C33: get_current_path terminates on every finite non-empty history: a
\* call that has started ends, with a path or with an error; the walk
\* backwards does not go on forever.
C33_PathTerminates ==
    (reader.pc = "line438" /\ history # << >>) ~> (reader.pc = "done")

C33_Witness ==
    /\ reader.op = "get_current_path"
    /\ reader.pc = "done"
    /\ reader.raised
    /\ StepNos(history) = <<0, 1, 3>>
    /\ reader.current_index = -4

\* C35: for a problem with a data-based objective (func is None) the
\* evaluator records the objective with no expression, and evaluate does
\* not raise and returns the values of the analytical objectives.
C35_DataBasedObjectiveSkipped ==
    (/\ ret.op = "evaluate"
     /\ \E i \in DOMAIN args.problem.objectives :
            args.problem.objectives[i].func = None)
    => /\ \A i \in DOMAIN args.problem.objectives :
            args.problem.objectives[i].func = None
                => objective_expressions(args.problem)[i] = None
       /\ ~ret.raised
       /\ \A i \in DOMAIN args.problem.objectives :
            LET o == args.problem.objectives[i]
            IN o.func # None =>
                /\ o.symbol \in DOMAIN ret.objective_values
                /\ \A r \in 1 .. Len(args.xs) :
                    ret.objective_values[o.symbol][r]
                        = EvalFunc(The(o.func), args.xs[r])


\* C39: initialize, iterate and intermediate answer a request for a missing
\* problem with 404 and a request for a problem whose owner is set and is
\* not the user with 403, in both cases without having read or written a
\* solution-archive or preference record and with the database unchanged;
\* a request for a problem without an owner passes the access check for
\* every user.
RejectedUntouched(status) ==
    /\ ret'.status = status
    /\ ret'.touched = << >>
    /\ ret'.response = None
    /\ db' = db

C39_AccessChecked ==
    [][args'.op \in NimbusOps =>
       LET id == args'.problem_id
       IN /\ id \notin DOMAIN db.problems => RejectedUntouched(404)
          /\ id \in DOMAIN db.problems =>
                LET owner == db.problems[id].owner
                IN /\ owner \notin {None, Some(args'.user)} =>
                        RejectedUntouched(403)
                   /\ owner = None =>
                        /\ ret'.status # 403
                        /\ ret'.detail # "Problem not found."
                        /\ ret'.touched # << >>]_vars

C39_Witness ==
    /\ args.op = "iterate"
    /\ args.user = 2
    /\ args.problem_id = 1
    /\ ret.status = 403
    /\ ret.touched = << >>
    /\ \E i \in DOMAIN db.archive :
            db.archive[i].user = 1 /\ db.archive[i].problem = 1


\* the results whose objective values are not those of an earlier result
FirstOccurrences(results) ==
    LET keep == {i \in DOMAIN results :
                    \A j \in 1 .. i - 1 :
                        ~allclose(results[j].optimal_objectives,
                                  results[i].optimal_objectives)}
        RECURSIVE pick(_)
        pick(i) == IF i > Len(results) THEN << >>
                   ELSE (IF i \in keep THEN <<results[i]>> ELSE << >>)
                            \o pick(i + 1)
    IN pick(1)

\* the objective vectors of the rows of (user, problem) flagged current
CurrentObjectives(session, user, problem_id) ==
    {session.archive[i].objectives : i \in
        {k \in DOMAIN session.archive :
            /\ session.archive[k].user = user
            /\ session.archive[k].problem = problem_id
            /\ session.archive[k].current}}

\* C36: an iterate or intermediate request that reached the solver ends
\* successfully, and then the archive entries of (user, problem) flagged
\* current are exactly the results of this iteration, each stored once.
C36_CurrentAreResults ==
    (args.op \in {"iterate", "intermediate"} /\ ret.deduplicated # None) =>
        /\ ret.status = 200
        /\ CurrentObjectives(db, args.user, args.problem_id) =
              {args.results[i].optimal_objectives : i \in DOMAIN args.results}
        /\ \A i, j \in DOMAIN db.archive :
              (/\ db.archive[i].user = db.archive[j].user
               /\ db.archive[i].problem = db.archive[j].problem
               /\ db.archive[i].objectives = db.archive[j].objectives)
                  => i = j

\* C37: the duplicate removal of iterate and intermediate never fails and
\* keeps exactly the first result of every distinct objective vector.
C37_OneOfEachKept ==
    (args.op \in {"iterate", "intermediate"} /\ ret.deduplicated # None) =>
        /\ ~The(ret.deduplicated).raised
        /\ The(ret.deduplicated).results = FirstOccurrences(args.results)

\* C38: initialize, for an accessible problem with ideal and nadir points,
\* returns a response with one lower and one upper bound per objective in
\* objective order, (ideal, nadir) for a minimized and (nadir, ideal) for a
\* maximized objective, and leaves exactly one starting solution of the
\* user for the problem in the archive however often it is called.
C38_InitReturnsBounds ==
    (/\ args.op = "initialize"
     /\ AccessStatus(db, args.user, args.problem_id) = 200) =>
        LET problem == db.problems[args.problem_id].value
            objs == problem.objectives
        IN /\ ret.status = 200
           /\ ret.response # None
           /\ Len(The(ret.response).lower_bounds) = Len(objs)
           /\ Len(The(ret.response).upper_bounds) = Len(objs)
           /\ \A i \in DOMAIN objs :
                LET lo == The(ret.response).lower_bounds[i]
                    up == The(ret.response).upper_bounds[i]
                IN IF objs[i].maximize
                   THEN /\ lo = problem.nadir[objs[i].symbol]
                        /\ up = problem.ideal[objs[i].symbol]
                   ELSE /\ lo = problem.ideal[objs[i].symbol]
                        /\ up = problem.nadir[objs[i].symbol]
           /\ Len(UserSolutions(db, args.user, args.problem_id)) = 1

=============================================================================
